---- MODULE Spec2Model ----
(***************************************************************************)
(* A state-machine model of tidevice's BaseDevice (src/tidevice/_device.py) *)
(*                                                                         *)
(* The handle runs on one thread; its call stack is the variable `stack`,  *)
(* one frame per active method, one action per request/reply exchange of   *)
(* a method.  The device (lockdown) and the mux daemon are the             *)
(* environment: their replies are drawn from small sets.  The mux daemon   *)
(* keeps one pair record per UDID (muxStore).                              *)
(*                                                                         *)
(* xcuitest runs on the caller's thread beside the reader threads of the   *)
(* two testmanagerd connections and the workers that run the callbacks;    *)
(* there the lockdown client's operations are taken by their outcome, a    *)
(* value or an error.                                                      *)
(***************************************************************************)
EXTENDS Integers, Sequences, FiniteSets, TLC

VARIABLES
    stack,        \* call stack of the handle's thread, innermost frame last
    rv,           \* <<v>>: value returned by the call that just finished
    result,       \* outcome of the current / last top-level call
    pair_record,  \* self._pair_record: <<>> (None) or <<record>>
    muxStore,     \* pair record kept by the mux daemon: <<>> or <<record>>
    info,         \* self._info: <<>> (None) or <<udid>>
    udid,         \* self._udid: <<>> (None) or <<udid>>
    conns,        \* open tunnels to the device: id -> connection
    hostCtr,      \* number of HostIDs generated so far (uuid4 is fresh)
    device,       \* the attached device: its ProductVersion and Developer Mode
    xpc,          \* xcuitest: position of the orchestrator (the caller's thread)
    xloc,         \* xcuitest: locals of the orchestrator (pid, test_result_str)
    xout,         \* xcuitest: how the call ended
    xconn,        \* xcuitest: the testmanagerd connections x1 and x2
    quit_event,   \* xcuitest: quit_event.is_set()
    test_results, \* xcuitest: the list test_results
    workers,      \* xcuitest: callbacks handed to the workers, not yet run
    cb_done,      \* xcuitest: how the callbacks run so far ended
    pem,          \* ssl_pemfile_path: self._lock, the PEM file, the calling threads
    app           \* _launch_wda_app's file transfer and app_stop: the runner's
                  \* /tmp directory, the instruments connection, the call

xvars == <<xpc, xloc, xout, xconn, quit_event, test_results, workers, cb_done>>

vars == <<stack, rv, result, pair_record, muxStore, info, udid, conns, hostCtr,
          device, xvars, pem, app>>

\* the variables that the lockdown client's methods do not write
rest == <<device, xvars, pem, app>>

\* the variables that xcuitest, taking the lockdown client by its outcomes,
\* does not write
handle == <<stack, rv, result, pair_record, muxStore, info, udid, conns, hostCtr,
            device, pem, app>>

----------------------------------------------------------------------------
(* Bounds of the model *)

\* HostIDs that pair() may generate in one behaviour
MaxHostIDs == 2
\* top-level calls made on the handle in one behaviour
MaxCalls == 3
\* start_service activations nested in one another
MaxDepth == 2
\* threads that read ssl_pemfile_path on one handle
MaxThreads == 2
\* reads of ssl_pemfile_path by one thread in one behaviour
MaxPemReads == 1
\* processes the device reports to app_stop
MaxProcesses == 2
\* calls of _launch_wda_app and app_stop in one behaviour
MaxAppCalls == 1
\* reads of info and devid on one handle
MaxInfoReads == 3
\* top-level calls of a service operation in one behaviour
MaxServiceCalls == 1

----------------------------------------------------------------------------
(* Values *)

None == <<>>
Some(v) == <<v>>

LOCKDOWN_PORT == "lockdown"
MobileLockdown == "com.apple.mobile.lockdown"

ThisUDID == "U1"
SystemBUID == "BUID"

\* what a device may answer to QueryType
QueryTypes == {MobileLockdown, "com.apple.mobile.restored"}

\* Error strings of lockdown replies
InvalidHostID == "InvalidHostID"
PasswordProtected == "PasswordProtected"
InvalidService == "InvalidService"
NoError == ""

SessionIDs == {"abc", "xyz"}

\* replies to StartSession: an Error, or SessionID and EnableSessionSSL
StartSessionReplies ==
    { [Error |-> e, SessionID |-> "", EnableSessionSSL |-> FALSE] :
          e \in {InvalidHostID, PasswordProtected} }
    \cup
    { [Error |-> NoError, SessionID |-> s, EnableSessionSSL |-> b] :
          s \in SessionIDs, b \in BOOLEAN }

\* reply codes of the mux daemon (UsbmuxReplyCode)
BadDevice == "BadDevice"
BadCommand == "BadCommand"

\* the record the daemon holds for a device paired before this run
OldRecord ==
    [HostID |-> 0, SystemBUID |-> SystemBUID, EscrowBag |-> "bag0",
     HostPrivateKey |-> "priv0"]

EscrowBags == {"bag1"}

\* an entry of the daemon's device list (DeviceInfo)
Dev(u, n) == [udid |-> u, device_id |-> n]

\* device lists the daemon may report
DeviceLists ==
    { <<>>, <<Dev(ThisUDID, 1)>>, <<Dev("U2", 2)>>, <<Dev(ThisUDID, 1), Dev("U2", 2)>> }

\* more of them: another order, and one device listed once per transport
InfoLists ==
    DeviceLists \cup { <<Dev("U2", 2), Dev(ThisUDID, 1)>>,
                       <<Dev(ThisUDID, 1), Dev(ThisUDID, 3)>> }

\* the UDID a handle may be created with: none, a listed one, an unknown one
HandleUDIDs == {None, Some(ThisUDID), Some("U9")}

Exc(kind, msg) == [kind |-> kind, msg |-> msg]

----------------------------------------------------------------------------
(* Frames and the call stack *)

Frame(fn, arg) ==
    [fn |-> fn, pc |-> "start", arg |-> arg, conn |-> 0, data |-> <<>>,
     reply |-> <<>>, err |-> <<>>, log |-> <<>>]

Top == stack[Len(stack)]
Running == Len(stack) > 0
At(fn, pc) == Running /\ Top.fn = fn /\ Top.pc = pc

Rest(st) == SubSeq(st, 1, Len(st) - 1)
SetTop(st, f) == [st EXCEPT ![Len(st)] = f]

\* tags of the events a frame of method fn records in its log
Interested(fn) ==
    CASE fn = "create_session" ->
            {"StartSession", "clear", "DeletePairRecord", "handshake",
             "Pair", "SavePairRecord", "QueryType", "tls"}
      [] fn = "handshake" ->
            {"ReadPairRecord", "pair", "paired"}
      [] fn = "pair" ->
            {"GetValue", "Pair", "SavePairRecord"}
      [] fn = "start_service" ->
            {"StartService", "mount", "mounted"}
      [] fn = "connect_instruments" ->
            {"attempt", "failed", "sleep"}
      [] OTHER -> {}

\* a start_service frame follows the StartService requests for its own service
Follows(f, ev) ==
    /\ ev[1] \in Interested(f.fn)
    /\ (f.fn = "start_service" /\ ev[1] = "StartService") => ev[2] = f.arg

\* every active frame interested in the event appends it to its log
Emit(st, ev) ==
    [i \in DOMAIN st |->
        IF Follows(st[i], ev)
        THEN [st[i] EXCEPT !.log = Append(@, ev)]
        ELSE st[i]]

----------------------------------------------------------------------------
(* Connections *)

FreeConn == CHOOSE n \in 1..(Cardinality(DOMAIN conns) + 1) : n \notin DOMAIN conns

\* a tunnel to a device port, opened for method `owner`; reqs are the requests
\* sent on it so far, typeOk whether QueryType was answered with the lockdown type,
\* session the method that asked for the lockdown session accepted on it ("" when
\* no StartSession was accepted on it)
NewConn(port, owner) ==
    [port |-> port, owner |-> owner, tls |-> "plain", reqs |-> <<>>,
     typeOk |-> FALSE, session |-> "", left |-> {}]

OpenConn(cs, id, port, owner) ==
    [i \in DOMAIN cs \cup {id} |-> IF i = id THEN NewConn(port, owner) ELSE cs[i]]

CloseConn(cs, id) == [i \in DOMAIN cs \ {id} |-> cs[i]]

\* what is left of connections that went out of reach without a close()
Abandoned ==
    [port |-> "", owner |-> "abandoned", tls |-> "plain", reqs |-> <<>>,
     typeOk |-> FALSE, session |-> "", left |-> {}]

\* the connections ids are no longer referenced and were not closed; what is
\* kept of them is whether a lockdown session was open on one of them
Abandon(cs, ids) ==
    IF ids \cap DOMAIN cs = {} THEN cs
    ELSE LET gone == {cs[i].session : i \in (ids \cup {0}) \cap DOMAIN cs} \ {""}
             for == IF gone = {} THEN "" ELSE CHOOSE m \in gone : TRUE
         IN  [i \in (DOMAIN cs \ ids) \cup {0} |->
                  IF i = 0
                  THEN [Abandoned EXCEPT !.session = for,
                                         !.left = IF 0 \in DOMAIN cs THEN cs[0].left ELSE {}]
                  ELSE cs[i]]

Sent(cs, id, req) == [cs EXCEPT ![id].reqs = Append(@, req)]

----------------------------------------------------------------------------
(* Exceptions: unwinding to the nearest handler *)

\* the exception classes that `except MuxError` catches
MuxErrorKinds == {"MuxError", "MuxServiceError", "MuxReplyError"}

\* the methods that hold their connection in a `with` block
\* (lines 211, 357, 360, 507, 631)
WithFrames ==
    {"pair", "get_value", "_unsafe_start_service", "_test_if_developer_mounted"}

\* the connection a `with` block closes when an exception leaves the frame
ExitClose(f) == IF f.conn # 0 /\ f.fn \in WithFrames THEN {f.conn} ELSE {}

\* the connection that goes out of reach, unclosed, when an exception leaves
\* a frame that holds it in a plain local
ExitDrop(f) == IF f.conn # 0 /\ f.fn \notin WithFrames THEN {f.conn} ELSE {}

\* the connections after an exception left frame f
\* (the unclosed one keeps, in left, the method the exception left)
Left(cs, f) ==
    LET closed == [i \in DOMAIN cs \ ExitClose(f) |-> cs[i]]
        a == Abandon(closed, ExitDrop(f))
    IN  IF ExitDrop(f) \cap DOMAIN closed = {} THEN a
        ELSE [a EXCEPT ![0].left = @ \cup {f.fn}]

\* whether frame f, at its pc, catches exception e
Catches(f, e) ==
    \/ /\ f.fn = "start_service"                  \* line 500
       /\ f.pc = "try"
       /\ e.kind \in MuxErrorKinds
    \/ /\ f.fn = "mount_developer_image"          \* lines 649, 667
       /\ f.pc \in {"im1", "im2"}
       /\ e.kind \in MuxErrorKinds
    \/ /\ f.fn = "_test_if_developer_mounted"     \* line 634
       /\ f.pc \in {"sess", "inner"}
       /\ e.kind = "MuxServiceError"
    \/ /\ f.fn = "connect_instruments"            \* line 802
       /\ f.pc \in {"ver", "conn"}
       /\ e.kind = "SocketError"

\* the frame after it caught e: at its except clause
OnCatch(f, e) ==
    CASE f.fn = "start_service" -> [f EXCEPT !.pc = "except", !.err = Some(e)]
      [] f.fn = "mount_developer_image" /\ f.pc = "im1" -> [f EXCEPT !.pc = "test"]
      [] f.fn = "mount_developer_image" /\ f.pc = "im2" ->
            [f EXCEPT !.pc = "im2_err", !.err = Some(e)]
      [] f.fn = "_test_if_developer_mounted" -> [f EXCEPT !.pc = "false"]
      [] f.fn = "connect_instruments" -> [f EXCEPT !.pc = "failed", !.err = Some(e)]
      [] OTHER -> f

RECURSIVE Unwind(_, _, _)
Unwind(st, cs, e) ==
    IF st = <<>> THEN [stack |-> <<>>, conns |-> cs, caught |-> FALSE, log |-> <<>>]
    ELSE LET f == st[Len(st)] IN
         IF Catches(f, e)
         THEN [stack |-> SetTop(st, OnCatch(f, e)),
               conns |-> Left(cs, f),
               caught |-> TRUE, log |-> <<>>]
         ELSE IF Len(st) = 1
              THEN [stack |-> <<>>,
                    conns |-> Left(cs, f),
                    caught |-> FALSE, log |-> f.log]
              ELSE Unwind(Rest(st), Left(cs, f), e)

\* raise e in the innermost frame, with the stack st and connections cs of the moment
Raise(st, cs, e) ==
    LET u == Unwind(st, cs, e) IN
    /\ stack' = u.stack
    /\ conns' = u.conns
    /\ rv' = None
    /\ result' = IF u.caught THEN result
                 ELSE [result EXCEPT !.status = "raised", !.exc = e, !.log = u.log]

\* return v from the innermost frame
Return(st, v) ==
    /\ stack' = Rest(st)
    /\ rv' = IF Len(st) = 1 THEN None ELSE Some(v)
    /\ result' = IF Len(st) = 1
                 THEN [result EXCEPT !.status = "returned", !.value = Some(v),
                                     !.log = st[Len(st)].log]
                 ELSE result

\* call method fn from the innermost frame, which continues at pc
Call(st, pc, fn, arg) ==
    Append(SetTop(st, [st[Len(st)] EXCEPT !.pc = pc]), Frame(fn, arg))


Goto(st, pc) == SetTop(st, [st[Len(st)] EXCEPT !.pc = pc])

----------------------------------------------------------------------------
(* BaseDevice.info: resolve the device against the daemon's device list *)

RECURSIVE LastMatch(_, _)
LastMatch(devs, u) ==
    IF devs = <<>> THEN None
    ELSE IF devs[Len(devs)].udid = u THEN Some(devs[Len(devs)])
    ELSE LastMatch(SubSeq(devs, 1, Len(devs) - 1), u)

\* a resolution that takes the first device when several are listed
InfoResolve_FirstOfMany(devs) ==
    IF info # None THEN [ok |-> TRUE, info |-> info, udid |-> udid, msg |-> ""]
    ELSE IF udid # None
    THEN LET m == LastMatch(devs, udid[1]) IN
         IF m # None THEN [ok |-> TRUE, info |-> m, udid |-> udid, msg |-> ""]
         ELSE [ok |-> FALSE, info |-> info, udid |-> udid, msg |-> "not ready"]
    ELSE IF Len(devs) = 0
    THEN [ok |-> FALSE, info |-> info, udid |-> udid, msg |-> "No device connected"]
    ELSE [ok |-> TRUE, info |-> Some(devs[1]), udid |-> Some(devs[1].udid), msg |-> ""]

\* the outcome of reading self.info when the daemon lists devs
InfoResolve(devs) ==
    IF info # None THEN [ok |-> TRUE, info |-> info, udid |-> udid, msg |-> ""]
    ELSE IF udid # None
    THEN LET m == LastMatch(devs, udid[1]) IN
         IF m # None THEN [ok |-> TRUE, info |-> m, udid |-> udid, msg |-> ""]
         ELSE [ok |-> FALSE, info |-> info, udid |-> udid, msg |-> "not ready"]
    ELSE IF Len(devs) = 0
    THEN [ok |-> FALSE, info |-> info, udid |-> udid, msg |-> "No device connected"]
    ELSE IF Len(devs) > 1
    THEN [ok |-> FALSE, info |-> info, udid |-> udid,
          msg |-> "More then one device connected"]
    ELSE [ok |-> TRUE, info |-> Some(devs[1]), udid |-> Some(devs[1].udid), msg |-> ""]

\* the device lists the daemon may answer with when info has to be resolved
ListsNow == IF info = None THEN DeviceLists ELSE {<<>>}

----------------------------------------------------------------------------
(* BaseDevice.create_inner_connection(port, _ssl, ssl_dial_only) *)

CicArg(port, ssl, dial) == [port |-> port, ssl |-> ssl, dial |-> dial]

\* lines 284-285 (and 292 when _ssl is false): resolve info, open the tunnel
CIC_Connect ==
    /\ At("cic", "start")
    /\ \E devs \in ListsNow :
        LET r == InfoResolve(devs)
            id == FreeConn
            cs2 == OpenConn(conns, id, Top.arg.port, stack[Len(stack) - 1].fn)
        IN  IF ~r.ok
            THEN /\ Raise(stack, conns, Exc("MuxError", r.msg))
                 /\ UNCHANGED <<info, udid>>
            ELSE /\ info' = r.info
                 /\ udid' = r.udid
                 /\ conns' = cs2
                 /\ IF Top.arg.ssl
                    THEN /\ stack' = SetTop(stack, [Top EXCEPT !.pc = "ssl", !.conn = id])
                         /\ UNCHANGED <<rv, result>>
                    ELSE Return(stack, id)
    /\ UNCHANGED <<pair_record, muxStore, hostCtr>>
    /\ UNCHANGED rest

\* line 289: self.ssl_pemfile_path reads self.pair_record (line 253)
CIC_PemFile ==
    /\ At("cic", "ssl")
    /\ stack' = IF pair_record = None
                THEN Call(stack, "tls", "handshake", <<>>)
                ELSE Goto(stack, "tls")
    /\ UNCHANGED <<rv, result, pair_record, muxStore, info, udid, conns, hostCtr>>
    /\ UNCHANGED rest

\* lines 287-292: the TLS handshake on the tunnel, undone when ssl_dial_only
CIC_SwitchToSsl ==
    /\ At("cic", "tls")
    /\ IF pair_record = None
       THEN Raise(stack, conns, Exc("TypeError", "NoneType"))
       ELSE \E ok \in BOOLEAN :
            IF ok
            THEN /\ conns' = [conns EXCEPT ![Top.conn].tls =
                                  IF Top.arg.dial THEN "unwrapped" ELSE "tls"]
                 /\ Return(stack, Top.conn)
            ELSE Raise(stack, conns, Exc("SSLError", "handshake"))
    /\ UNCHANGED <<pair_record, muxStore, info, udid, hostCtr>>
    /\ UNCHANGED rest

----------------------------------------------------------------------------
(* BaseDevice.handshake *)

\* what the daemon may answer to ReadPairRecord
ReadReplies == (IF muxStore # None THEN {"record"} ELSE {BadDevice}) \cup {BadCommand}

\* a handshake that writes the daemon's HostID and SystemBUID into a held record
HS_Read_InPlace ==
    /\ At("handshake", "start")
    /\ \E reply \in ReadReplies :
        LET st2 == Emit(Emit(stack, <<"handshake">>), <<"ReadPairRecord", reply>>) IN
        CASE reply = "record" ->
                /\ pair_record' =
                      IF pair_record = None THEN muxStore
                      ELSE Some([pair_record[1] EXCEPT
                                    !.HostID = muxStore[1].HostID,
                                    !.SystemBUID = muxStore[1].SystemBUID])
                /\ Return(st2, "None")
          [] reply = BadDevice ->
                /\ stack' = Call(Emit(st2, <<"pair">>), "paired", "pair", <<>>)
                /\ UNCHANGED <<pair_record, rv, result>>
          [] OTHER ->
                /\ UNCHANGED pair_record
                /\ Return(st2, "None")
    /\ UNCHANGED <<muxStore, info, udid, conns, hostCtr>>
    /\ UNCHANGED rest

\* lines 243-247: read the daemon's record; pair on BadDevice
HS_Read ==
    /\ At("handshake", "start")
    /\ \E reply \in ReadReplies :
        LET st2 == Emit(Emit(stack, <<"handshake">>), <<"ReadPairRecord", reply>>) IN
        CASE reply = "record" ->
                /\ pair_record' = muxStore
                /\ Return(st2, "None")
          [] reply = BadDevice ->
                /\ stack' = Call(Emit(st2, <<"pair">>), "paired", "pair", <<>>)
                /\ UNCHANGED <<pair_record, rv, result>>
          [] OTHER ->
                /\ UNCHANGED pair_record
                /\ Return(st2, "None")
    /\ UNCHANGED <<muxStore, info, udid, conns, hostCtr>>
    /\ UNCHANGED rest

\* line 247: self._pair_record = self.pair()
HS_Paired ==
    /\ At("handshake", "paired")
    /\ pair_record' = Some(rv[1])
    /\ Return(Emit(stack, <<"paired", rv[1].HostID>>), "None")
    /\ UNCHANGED <<muxStore, info, udid, conns, hostCtr>>
    /\ UNCHANGED rest

----------------------------------------------------------------------------
(* BaseDevice.get_value(key, no_session) *)

GvArg(key, no_session) == [key |-> key, no_session |-> no_session]

\* ProductVersion values of the attached device, as <<major, minor>>
ProductVersions == {<<13, 1>>, <<16, 0>>}

\* the values a device may report for a key
ValuesFor(key) ==
    CASE key = "DevicePublicKey" -> {"pubkey", ""}
      [] key = "WiFiAddress" -> {"wifi"}
      [] key = "ProductVersion" -> {device.version}
      [] key = "DeveloperModeStatus" -> {device.devmode}
      [] OTHER -> {"value"}

\* lines 359-360 / 364: open the plain connection or the session
GV_Start ==
    /\ At("get_value", "start")
    /\ stack' = IF Top.arg.no_session
                THEN Call(stack, "ns_conn", "cic", CicArg(LOCKDOWN_PORT, FALSE, FALSE))
                ELSE Call(stack, "s_conn", "create_session", <<>>)
    /\ UNCHANGED <<rv, result, pair_record, muxStore, info, udid, conns, hostCtr>>
    /\ UNCHANGED rest

\* lines 360-361: GetValue on the plain connection
GV_NoSession ==
    /\ At("get_value", "ns_conn")
    /\ \E v \in ValuesFor(Top.arg.key) :
        /\ conns' = Sent(conns, rv[1], "GetValue")
        /\ stack' = Emit(SetTop(stack, [Top EXCEPT !.pc = "reply", !.conn = rv[1],
                                                   !.data = v]),
                         <<"GetValue", Top.arg.key>>)
    /\ rv' = None
    /\ UNCHANGED <<result, pair_record, muxStore, info, udid, hostCtr>>
    /\ UNCHANGED rest

\* lines 364-365: GetValue inside the session
GV_Session ==
    /\ At("get_value", "s_conn")
    /\ \E v \in ValuesFor(Top.arg.key) :
        /\ conns' = Sent(conns, rv[1].conn, "GetValue")
        /\ stack' = SetTop(stack, [Top EXCEPT !.pc = "reply", !.conn = rv[1].conn,
                                              !.data = v])
    /\ rv' = None
    /\ UNCHANGED <<result, pair_record, muxStore, info, udid, hostCtr>>
    /\ UNCHANGED rest

\* lines 362 / 366: return the Value; leaving `with` closes the connection
GV_Return ==
    /\ At("get_value", "reply")
    /\ conns' = CloseConn(conns, Top.conn)
    /\ Return(stack, Top.data)
    /\ UNCHANGED <<pair_record, muxStore, info, udid, hostCtr>>
    /\ UNCHANGED rest


----------------------------------------------------------------------------
(* BaseDevice.pair *)

\* Error strings of a Pair reply
PairErrors == {PasswordProtected, "PairingDialogResponsePending"}

\* replies to Pair: an Error, or the EscrowBag
PairReplies ==
    { [Error |-> e, EscrowBag |-> ""] : e \in PairErrors }
    \cup { [Error |-> NoError, EscrowBag |-> b] : b \in EscrowBags }

\* line 188: get_value("DevicePublicKey", no_session=True)
P_Start ==
    /\ At("pair", "start")
    /\ stack' = Call(stack, "got_key", "get_value", GvArg("DevicePublicKey", TRUE))
    /\ UNCHANGED <<rv, result, pair_record, muxStore, info, udid, conns, hostCtr>>
    /\ UNCHANGED rest

\* lines 189-192: empty key raises; read the BUID; get_value("WiFiAddress")
P_GotKey ==
    /\ At("pair", "got_key")
    /\ IF rv[1] = ""
       THEN Raise(stack, conns, Exc("MuxError", "Unable to retrieve DevicePublicKey"))
       ELSE /\ stack' = Call(SetTop(stack, [Top EXCEPT !.data = rv[1]]),
                             "got_wifi", "get_value", GvArg("WiFiAddress", TRUE))
            /\ rv' = None
            /\ UNCHANGED <<result, conns>>
    /\ UNCHANGED <<pair_record, muxStore, info, udid, hostCtr>>
    /\ UNCHANGED rest

\* lines 201-211: the new record, with a fresh HostID, and the connection for Pair
P_GotWifi ==
    /\ At("pair", "got_wifi")
    /\ hostCtr < MaxHostIDs
    /\ hostCtr' = hostCtr + 1
    /\ stack' = Call(SetTop(stack, [Top EXCEPT !.data =
                        [HostID |-> hostCtr + 1, SystemBUID |-> SystemBUID,
                         EscrowBag |-> "", HostPrivateKey |-> ""]]),
                     "conn", "cic", CicArg(LOCKDOWN_PORT, FALSE, FALSE))
    /\ rv' = None
    /\ UNCHANGED <<result, pair_record, muxStore, info, udid, conns>>
    /\ UNCHANGED rest

\* lines 211-220: the Pair request, carrying the new record
P_Pair ==
    /\ At("pair", "conn")
    /\ \E reply \in PairReplies :
        /\ conns' = Sent(conns, rv[1], "Pair")
        /\ stack' = Emit(SetTop(stack, [Top EXCEPT !.pc = "reply", !.conn = rv[1],
                                                   !.reply = reply]),
                         <<"Pair", Top.data.HostID, reply.Error, reply.EscrowBag>>)
    /\ rv' = None
    /\ UNCHANGED <<result, pair_record, muxStore, info, udid, hostCtr>>
    /\ UNCHANGED rest

\* pair() that leaves the EscrowBag of the reply out of the record
P_Reply_DropsEscrowBag ==
    /\ At("pair", "reply")
    /\ LET reply == Top.reply
           cs2 == CloseConn(conns, Top.conn)
       IN  IF reply.Error # NoError
           THEN Raise(stack, cs2, Exc("MuxError", reply.Error))
           ELSE /\ stack' = SetTop(stack, [Top EXCEPT
                                !.pc = "save",
                                !.data = [@ EXCEPT !.HostPrivateKey = "priv"]])
                /\ conns' = cs2
                /\ UNCHANGED <<rv, result>>
    /\ UNCHANGED <<pair_record, muxStore, info, udid, hostCtr>>
    /\ UNCHANGED rest

\* pair() that goes on to SavePairRecord whatever the Pair reply says
P_Reply_IgnoresError ==
    /\ At("pair", "reply")
    /\ stack' = SetTop(stack, [Top EXCEPT
                     !.pc = "save",
                     !.data = [@ EXCEPT !.EscrowBag = Top.reply.EscrowBag,
                                        !.HostPrivateKey = "priv"]])
    /\ conns' = CloseConn(conns, Top.conn)
    /\ UNCHANGED <<rv, result>>
    /\ UNCHANGED <<pair_record, muxStore, info, udid, hostCtr>>
    /\ UNCHANGED rest

\* lines 221-229: an Error in the reply raises, else the EscrowBag is folded in;
\* leaving `with` closes the connection on either exit
P_Reply ==
    /\ At("pair", "reply")
    /\ LET reply == Top.reply
           cs2 == CloseConn(conns, Top.conn)
       IN  IF reply.Error # NoError
           THEN Raise(stack, cs2, Exc("MuxError", reply.Error))
           ELSE /\ stack' = SetTop(stack, [Top EXCEPT
                                !.pc = "save",
                                !.data = [@ EXCEPT !.EscrowBag = reply.EscrowBag,
                                                   !.HostPrivateKey = "priv"]])
                /\ conns' = cs2
                /\ UNCHANGED <<rv, result>>
    /\ UNCHANGED <<pair_record, muxStore, info, udid, hostCtr>>
    /\ UNCHANGED rest

\* pair() that returns the record without persisting it
P_Save_NotPersisted ==
    /\ At("pair", "save")
    /\ Return(stack, Top.data)
    /\ UNCHANGED <<pair_record, muxStore, info, udid, conns, hostCtr>>
    /\ UNCHANGED rest

\* lines 231-237: SavePairRecord to the daemon, then return the record
P_Save ==
    /\ At("pair", "save")
    /\ \E ok \in BOOLEAN :
        LET st2 == Emit(stack, <<"SavePairRecord", Top.data>>) IN
        IF ok
        THEN /\ muxStore' = Some(Top.data)
             /\ Return(st2, Top.data)
             /\ UNCHANGED conns
        ELSE /\ Raise(st2, conns, Exc("MuxReplyError", BadCommand))
             /\ UNCHANGED muxStore
    /\ UNCHANGED <<pair_record, info, udid, hostCtr>>
    /\ UNCHANGED rest

----------------------------------------------------------------------------
(* BaseDevice.create_session *)

\* line 298: s = self.create_inner_connection()
CS_Start ==
    /\ At("create_session", "start")
    /\ stack' = Call(stack, "conn", "cic", CicArg(LOCKDOWN_PORT, FALSE, FALSE))
    /\ UNCHANGED <<rv, result, pair_record, muxStore, info, udid, conns, hostCtr>>
    /\ UNCHANGED rest

\* create_session that does not check the Type of the QueryType reply
CS_QueryType_Unchecked ==
    /\ At("create_session", "conn")
    /\ \E t \in QueryTypes :
        LET s == rv[1]
            cs2 == [Sent(conns, s, "QueryType") EXCEPT ![s].typeOk = (t = MobileLockdown)]
            st2 == Emit(SetTop(stack, [Top EXCEPT !.conn = s]), <<"QueryType", t>>)
        IN  /\ stack' = Goto(st2, "getvalue")
            /\ conns' = cs2
            /\ rv' = None
            /\ UNCHANGED result
    /\ UNCHANGED <<pair_record, muxStore, info, udid, hostCtr>>
    /\ UNCHANGED rest

\* lines 299-300: QueryType, and the assert on the reply's Type
CS_QueryType ==
    /\ At("create_session", "conn")
    /\ \E t \in QueryTypes :
        LET s == rv[1]
            cs2 == [Sent(conns, s, "QueryType") EXCEPT ![s].typeOk = (t = MobileLockdown)]
            st2 == Emit(SetTop(stack, [Top EXCEPT !.conn = s]), <<"QueryType", t>>)
        IN  IF t = MobileLockdown
            THEN /\ stack' = Goto(st2, "getvalue")
                 /\ conns' = cs2
                 /\ rv' = None
                 /\ UNCHANGED result
            ELSE Raise(st2, cs2, Exc("AssertionError", ""))
    /\ UNCHANGED <<pair_record, muxStore, info, udid, hostCtr>>
    /\ UNCHANGED rest

\* lines 301-305: GetValue ProductVersion, the reply is not used
CS_GetValue ==
    /\ At("create_session", "getvalue")
    /\ conns' = Sent(conns, Top.conn, "GetValue")
    /\ stack' = Goto(stack, "pr1")
    /\ UNCHANGED <<rv, result, pair_record, muxStore, info, udid, hostCtr>>
    /\ UNCHANGED rest

\* line 310: self.pair_record, which runs handshake() when nothing is cached
CS_PairRecord1 ==
    /\ At("create_session", "pr1")
    /\ stack' = IF pair_record = None
                THEN Call(stack, "ss1", "handshake", <<>>)
                ELSE Goto(stack, "ss1")
    /\ UNCHANGED <<rv, result, pair_record, muxStore, info, udid, conns, hostCtr>>
    /\ UNCHANGED rest

\* lines 308-328: the first StartSession and the branch on its reply
CS_StartSession1 ==
    /\ At("create_session", "ss1")
    /\ IF pair_record = None
       THEN Raise(stack, conns, Exc("TypeError", "NoneType"))
       ELSE \E reply \in StartSessionReplies :
            LET rec == pair_record[1]
                cs2 == Sent(conns, Top.conn, "StartSession")
                st2 == Emit(SetTop(stack, [Top EXCEPT !.data = reply]),
                            <<"StartSession", rec.HostID, rec.SystemBUID, reply>>)
            IN  CASE reply.Error = InvalidHostID ->
                        /\ stack' = Goto(st2, "repair")
                        /\ conns' = cs2
                        /\ rv' = None
                        /\ UNCHANGED result
                  [] reply.Error \notin {InvalidHostID, NoError} ->
                        Raise(st2, cs2, Exc("MuxError", reply.Error))
                  [] OTHER ->
                        /\ stack' = Goto(st2, "session")
                        /\ conns' = cs2
                        /\ rv' = None
                        /\ UNCHANGED result
    /\ UNCHANGED <<pair_record, muxStore, info, udid, hostCtr>>
    /\ UNCHANGED rest

\* the re-pair path without DeletePairRecord
CS_Repair_NoDelete ==
    /\ At("create_session", "repair")
    /\ pair_record' = None
    /\ stack' = Call(Emit(stack, <<"clear">>), "pr2", "handshake", <<>>)
    /\ UNCHANGED <<rv, result, conns, muxStore, info, udid, hostCtr>>
    /\ UNCHANGED rest

\* lines 317-319: drop the cached record, DeletePairRecord, handshake()
CS_Repair ==
    /\ At("create_session", "repair")
    /\ pair_record' = None
    /\ \E ok \in BOOLEAN :
        LET st2 == Emit(Emit(stack, <<"clear">>), <<"DeletePairRecord">>) IN
        IF ok
        THEN /\ muxStore' = None
             /\ stack' = Call(st2, "pr2", "handshake", <<>>)
             /\ UNCHANGED <<rv, result, conns>>
        ELSE /\ Raise(st2, conns, Exc("MuxReplyError", BadCommand))
             /\ UNCHANGED muxStore
    /\ UNCHANGED <<info, udid, hostCtr>>
    /\ UNCHANGED rest

\* line 323: self.pair_record again, handshake() once more when still nothing
CS_PairRecord2 ==
    /\ At("create_session", "pr2")
    /\ stack' = IF pair_record = None
                THEN Call(stack, "ss2", "handshake", <<>>)
                ELSE Goto(stack, "ss2")
    /\ rv' = None
    /\ UNCHANGED <<result, pair_record, muxStore, info, udid, conns, hostCtr>>
    /\ UNCHANGED rest

\* lines 321-326: the second StartSession; its reply is not checked for Error
CS_StartSession2 ==
    /\ At("create_session", "ss2")
    /\ IF pair_record = None
       THEN Raise(stack, conns, Exc("TypeError", "NoneType"))
       ELSE \E reply \in StartSessionReplies :
            LET rec == pair_record[1] IN
            /\ stack' = Goto(Emit(SetTop(stack, [Top EXCEPT !.data = reply]),
                                  <<"StartSession", rec.HostID, rec.SystemBUID, reply>>),
                             "session")
            /\ conns' = Sent(conns, Top.conn, "StartSession")
            /\ rv' = None
            /\ UNCHANGED result
    /\ UNCHANGED <<pair_record, muxStore, info, udid, hostCtr>>
    /\ UNCHANGED rest

Session(s, session_id) == [conn |-> s, id |-> session_id]

\* the device accepted StartSession on connection s: a lockdown session is open
\* on it, asked for by the method that called create_session
Accepted(cs, s) ==
    [cs EXCEPT ![s].session = IF Len(stack) > 1 THEN stack[Len(stack) - 1].fn ELSE "user"]

\* create_session that never upgrades the session socket
CS_Session_NoUpgrade ==
    /\ At("create_session", "session")
    /\ IF Top.data.Error # NoError
       THEN Raise(stack, conns, Exc("KeyError", "SessionID"))
       ELSE /\ conns' = Accepted(conns, Top.conn)
            /\ Return(stack, [conn |-> Top.conn, id |-> Top.data.SessionID])
    /\ UNCHANGED <<pair_record, muxStore, info, udid, hostCtr>>
    /\ UNCHANGED rest

\* lines 330-335: SessionID, the TLS upgrade when EnableSessionSSL, the Session
CS_Session ==
    /\ At("create_session", "session")
    /\ LET data == Top.data
           s == Top.conn
       IN  IF data.Error # NoError
           THEN Raise(stack, conns, Exc("KeyError", "SessionID"))
           ELSE IF data.EnableSessionSSL
           THEN \E ok \in BOOLEAN :
                 IF ok
                 THEN /\ conns' = [Accepted(conns, s) EXCEPT ![s].tls = "tls"]
                      /\ Return(Emit(stack, <<"tls">>), Session(s, data.SessionID))
                 ELSE Raise(stack, Accepted(conns, s), Exc("SSLError", "handshake"))
           ELSE /\ conns' = Accepted(conns, s)
                /\ Return(stack, Session(s, data.SessionID))
    /\ UNCHANGED <<pair_record, muxStore, info, udid, hostCtr>>
    /\ UNCHANGED rest

----------------------------------------------------------------------------
(* Calls made on the handle by its user *)

Idle == [status |-> "idle", fn |-> "", calls |-> 0, value |-> None,
         exc |-> Exc("", ""), log |-> <<>>]

\* a top-level call of method fn with argument arg
TopCall(fn, arg) ==
    /\ ~Running
    /\ result.calls < MaxCalls
    /\ stack' = <<Frame(fn, arg)>>
    /\ rv' = None
    /\ result' = [Idle EXCEPT !.status = "running", !.fn = fn,
                              !.calls = result.calls + 1]
    /\ conns' = <<>>
    /\ UNCHANGED <<pair_record, muxStore, info, udid, hostCtr>>
    /\ UNCHANGED rest

CallCreateSession == TopCall("create_session", <<>>)
CallHandshake == TopCall("handshake", <<>>)
CallPair == TopCall("pair", <<>>)
CallGetValue ==
    \E ns \in BOOLEAN : TopCall("get_value", GvArg("ProductVersion", ns))

\* lines 138-140: the pair_record setter, device.pair_record = None
SetPairRecord ==
    /\ ~Running
    /\ result.calls < MaxCalls
    /\ pair_record # None
    /\ pair_record' = None
    /\ result' = [Idle EXCEPT !.fn = "pair_record", !.calls = result.calls + 1]
    /\ UNCHANGED <<stack, rv, muxStore, info, udid, conns, hostCtr>>
    /\ UNCHANGED rest

----------------------------------------------------------------------------
(* The lockdown client: pairing and sessions *)

\* a connection xcuitest has not opened yet
NoConn == [state |-> "none", fired |-> FALSE, callbacks |-> {}, sent |-> <<>>,
           received |-> 0]

\* an empty directory: file name -> content
NoFiles == [f \in {} |-> ""]

\* neither _launch_wda_app nor app_stop called: the runner's /tmp holds files,
\* the device runs the processes procs, no instruments connection is open
AppIdle(files, procs) ==
    app = [pc |-> "idle", fn |-> "", calls |-> 0, arg |-> <<>>,
           tmp |-> files, listing |-> <<>>, removed |-> {},
           procs |-> procs, ps |-> <<>>, at |-> 0, ts |-> "none", sent |-> <<>>,
           status |-> "idle", value |-> None, exc |-> Exc("", "")]

\* the threads that read ssl_pemfile_path
Threads == 1..MaxThreads

\* a thread that is not reading ssl_pemfile_path
PemThreadIdle ==
    [pc |-> "idle", reads |-> 0, status |-> "idle", found |-> "", wrote |-> FALSE]

\* ssl_pemfile_path not read: self._lock free (line 82), no file open
PemIdle(file) ==
    pem = [lock |-> 0,
           file |-> [state |-> file, content |-> IF file = "missing" THEN "" ELSE "pem",
                     open |-> {}],
           th |-> [t \in Threads |-> PemThreadIdle]]

\* xcuitest not called
XIdle ==
    /\ xpc = "idle"
    /\ xloc = [pid |-> 0, listed |-> <<>>, start_flag |-> FALSE, config |-> None,
               container |-> None, launch_reply |-> None, ins_sent |-> <<>>,
               ins_callbacks |-> {}, session_result |-> None, auth_result |-> None]
    /\ xout = [status |-> "idle", exc |-> Exc("", ""), at |-> "", seen |-> <<>>]
    /\ xconn = [c \in {"x1", "x2"} |-> NoConn]
    /\ quit_event = FALSE
    /\ test_results = <<>>
    /\ workers = <<>>
    /\ cb_done = <<>>

\* the handle after construction
InitHandle ==
    /\ stack = <<>>
    /\ rv = None
    /\ result = Idle
    /\ pair_record = None
    /\ info = None
    /\ udid = Some(ThisUDID)
    /\ conns = <<>>
    /\ hostCtr = 0

Init ==
    /\ InitHandle
    /\ muxStore \in {None, Some(OldRecord)}
    /\ device \in [version : ProductVersions, devmode : BOOLEAN]
    /\ XIdle
    /\ PemIdle("missing")
    /\ AppIdle(NoFiles, <<>>)

SessionSteps ==
    \/ CIC_Connect
    \/ HS_Read \/ HS_Paired
    \/ GV_Start \/ GV_NoSession \/ GV_Session \/ GV_Return
    \/ P_Start \/ P_GotKey \/ P_GotWifi \/ P_Pair \/ P_Reply \/ P_Save
    \/ CS_Start \/ CS_QueryType \/ CS_GetValue \/ CS_PairRecord1
    \/ CS_StartSession1 \/ CS_Repair \/ CS_PairRecord2 \/ CS_StartSession2
    \/ CS_Session

Next ==
    \/ CallCreateSession \/ CallHandshake \/ CallPair \/ CallGetValue
    \/ SetPairRecord
    \/ SessionSteps

Spec == Init /\ [][Next]_vars


----------------------------------------------------------------------------
(* Services *)

AFC == "com.apple.afc"
AmfiLockdown == "com.apple.amfi.lockdown"
ImageMounterService == "com.apple.mobile.mobile_image_mounter"
InstrumentsRemoteServer == "com.apple.instruments.remoteserver"
InstrumentsRemoteServerSecure ==
    "com.apple.instruments.remoteserver.DVTSecureSocketProxy"

\* lines 533-536: the services that only dial TLS
DtxServices ==
    {"com.apple.instruments.remoteserver",
     "com.apple.accessibility.axAuditDaemon.remoteserver",
     "com.apple.testmanagerd.lockdown",
     "com.apple.debugserver"}

ServicePorts == {"port1"}

\* replies to StartService: an Error, or Port and (possibly) EnableServiceSSL;
\* Echo: the reply's Service is the requested name
StartServiceReplies ==
    { [Error |-> e, Port |-> "", EnableServiceSSL |-> None, Echo |-> TRUE] :
          e \in {InvalidService, PasswordProtected} }
    \cup
    { [Error |-> NoError, Port |-> p, EnableServiceSSL |-> f, Echo |-> TRUE] :
          p \in ServicePorts, f \in {None, Some(TRUE), Some(FALSE)} }
    \cup
    { [Error |-> NoError, Port |-> p, EnableServiceSSL |-> None, Echo |-> FALSE] :
          p \in ServicePorts }

\* data.get('EnableServiceSSL', False)
GetSsl(reply) == IF reply.EnableServiceSSL = None THEN FALSE ELSE reply.EnableServiceSSL[1]

----------------------------------------------------------------------------
(* BaseDevice._unsafe_start_service(name) *)

\* line 507: with self.create_session() as _s
USS_Start ==
    /\ At("_unsafe_start_service", "start")
    /\ stack' = Call(stack, "sess", "create_session", <<>>)
    /\ UNCHANGED <<rv, result, pair_record, muxStore, info, udid, conns, hostCtr>>
    /\ UNCHANGED rest

\* lines 511-515: the StartService request inside the session
USS_StartService ==
    /\ At("_unsafe_start_service", "sess")
    /\ \E reply \in StartServiceReplies :
        /\ conns' = Sent(conns, rv[1].conn, "StartService")
        /\ stack' = Emit(SetTop(stack, [Top EXCEPT !.pc = "reply",
                                                   !.conn = rv[1].conn,
                                                   !.reply = reply]),
                         <<"StartService", Top.arg, reply.Error>>)
    /\ rv' = None
    /\ UNCHANGED <<result, pair_record, muxStore, info, udid, hostCtr>>
    /\ UNCHANGED rest

\* _unsafe_start_service that asks for ssl_dial_only whatever the service is
USS_Reply_AlwaysDialOnly ==
    /\ At("_unsafe_start_service", "reply")
    /\ LET reply == Top.reply
           cs2 == CloseConn(conns, Top.conn)
       IN  IF reply.Error # NoError
           THEN Raise(stack, cs2, Exc("MuxServiceError", reply.Error))
           ELSE IF ~reply.Echo
           THEN Raise(stack, cs2, Exc("AssertionError", "Service"))
           ELSE /\ stack' = Call(SetTop(stack, [Top EXCEPT !.conn = 0]), "tunnel", "cic",
                                 CicArg(reply.Port, GetSsl(reply), TRUE))
                /\ conns' = cs2
                /\ UNCHANGED <<rv, result>>
    /\ UNCHANGED <<pair_record, muxStore, info, udid, hostCtr>>
    /\ UNCHANGED rest

\* lines 516-538: an Error raises MuxServiceError; leaving `with` closes the
\* session on either exit; the reply must name the service; then the tunnel
\* to the service port is opened
USS_Reply ==
    /\ At("_unsafe_start_service", "reply")
    /\ LET reply == Top.reply
           cs2 == CloseConn(conns, Top.conn)
       IN  IF reply.Error # NoError
           THEN Raise(stack, cs2, Exc("MuxServiceError", reply.Error))
           ELSE IF ~reply.Echo
           THEN Raise(stack, cs2, Exc("AssertionError", "Service"))
           ELSE /\ stack' = Call(SetTop(stack, [Top EXCEPT !.conn = 0]), "tunnel", "cic",
                                 CicArg(reply.Port, GetSsl(reply),
                                        Top.arg \in DtxServices))
                /\ conns' = cs2
                /\ UNCHANGED <<rv, result>>
    /\ UNCHANGED <<pair_record, muxStore, info, udid, hostCtr>>
    /\ UNCHANGED rest

\* lines 539-540: return the connection
USS_Return ==
    /\ At("_unsafe_start_service", "tunnel")
    /\ Return(stack, rv[1])
    /\ UNCHANGED <<pair_record, muxStore, info, udid, conns, hostCtr>>
    /\ UNCHANGED rest

----------------------------------------------------------------------------
(* BaseDevice.start_service(name) *)

SSDepth == Cardinality({i \in DOMAIN stack : stack[i].fn = "start_service"})

\* lines 498-499: try: return self._unsafe_start_service(name)
SS_Try ==
    /\ At("start_service", "start")
    /\ stack' = Call(stack, "try", "_unsafe_start_service", Top.arg)
    /\ UNCHANGED <<rv, result, pair_record, muxStore, info, udid, conns, hostCtr>>
    /\ UNCHANGED rest

\* line 499: the first attempt returned
SS_Return ==
    /\ At("start_service", "try")
    /\ Return(stack, rv[1])
    /\ UNCHANGED <<pair_record, muxStore, info, udid, conns, hostCtr>>
    /\ UNCHANGED rest

\* lines 500-501: except (MuxServiceError, MuxError): self.mount_developer_image()
SS_Mount ==
    /\ At("start_service", "except")
    /\ stack' = Call(stack, "mounted", "mount_developer_image", FALSE)
    /\ UNCHANGED <<rv, result, pair_record, muxStore, info, udid, conns, hostCtr>>
    /\ UNCHANGED rest

\* lines 503-504: after the mount, the second attempt
SS_Retry ==
    /\ At("start_service", "mounted")
    /\ stack' = Call(Emit(stack, <<"mounted">>), "retry", "_unsafe_start_service",
                     Top.arg)
    /\ rv' = None
    /\ UNCHANGED <<result, pair_record, muxStore, info, udid, conns, hostCtr>>
    /\ UNCHANGED rest

\* line 504: the second attempt returned
SS_RetryReturn ==
    /\ At("start_service", "retry")
    /\ Return(stack, rv[1])
    /\ UNCHANGED <<pair_record, muxStore, info, udid, conns, hostCtr>>
    /\ UNCHANGED rest

----------------------------------------------------------------------------
(* BaseDevice._test_if_developer_mounted *)

\* line 631: with self.create_session()
TM_Start ==
    /\ At("_test_if_developer_mounted", "start")
    /\ stack' = Call(stack, "sess", "create_session", <<>>)
    /\ UNCHANGED <<rv, result, pair_record, muxStore, info, udid, conns, hostCtr>>
    /\ UNCHANGED rest

\* line 632: self._unsafe_start_service(LockdownService.MobileLockdown)
TM_Inner ==
    /\ At("_test_if_developer_mounted", "sess")
    /\ stack' = Call(SetTop(stack, [Top EXCEPT !.conn = rv[1].conn]), "inner",
                     "_unsafe_start_service", MobileLockdown)
    /\ rv' = None
    /\ UNCHANGED <<result, pair_record, muxStore, info, udid, conns, hostCtr>>
    /\ UNCHANGED rest

\* line 633: return True; the session is closed, the service connection dropped
TM_True ==
    /\ At("_test_if_developer_mounted", "inner")
    /\ conns' = Abandon(CloseConn(conns, Top.conn), {rv[1]})
    /\ Return(stack, TRUE)
    /\ UNCHANGED <<pair_record, muxStore, info, udid, hostCtr>>
    /\ UNCHANGED rest

\* lines 634-635: except MuxServiceError: return False
TM_False ==
    /\ At("_test_if_developer_mounted", "false")
    /\ Return(stack, FALSE)
    /\ UNCHANGED <<pair_record, muxStore, info, udid, conns, hostCtr>>
    /\ UNCHANGED rest

----------------------------------------------------------------------------
(* BaseDevice.enable_ios16_developer_mode(reboot_ok) and                    *)
(* BaseDevice._send_action_to_amfi_lockdown(action)                         *)

\* response codes of the amfi service
RespRebooting == 230
RespNotEnabled == 217
RespCodes == {RespRebooting, RespNotEnabled, 0}

\* line 489: conn = self.start_service(LockdownService.AmfiLockdown)
SA_Start ==
    /\ At("_send_action_to_amfi_lockdown", "start")
    /\ SSDepth < MaxDepth
    /\ stack' = Call(stack, "conn", "start_service", AmfiLockdown)
    /\ UNCHANGED <<rv, result, pair_record, muxStore, info, udid, conns, hostCtr>>
    /\ UNCHANGED rest

\* lines 490-495: send the action, read the response code
SA_Send ==
    /\ At("_send_action_to_amfi_lockdown", "conn")
    /\ \E code \in RespCodes :
        /\ conns' = Abandon(conns, {rv[1]})
        /\ Return(Emit(stack, <<"amfi", Top.arg, code>>), code)
    /\ UNCHANGED <<pair_record, muxStore, info, udid, hostCtr>>
    /\ UNCHANGED rest

\* line 467: get_value("DeveloperModeStatus", domain="com.apple.security.mac.amfi")
EN_Start ==
    /\ At("enable_ios16_developer_mode", "start")
    /\ stack' = Call(stack, "status", "get_value", GvArg("DeveloperModeStatus", FALSE))
    /\ UNCHANGED <<rv, result, pair_record, muxStore, info, udid, conns, hostCtr>>
    /\ UNCHANGED rest

\* an enable that asks for the reboot whatever reboot_ok is
EN_Status_AlwaysReboot ==
    /\ At("enable_ios16_developer_mode", "status")
    /\ IF rv[1]
       THEN Return(stack, TRUE)
       ELSE /\ stack' = Call(SetTop(stack, [Top EXCEPT !.data = <<<<"status", rv[1]>>>>]),
                             "act1", "_send_action_to_amfi_lockdown", 1)
            /\ rv' = None
            /\ UNCHANGED result
    /\ UNCHANGED <<pair_record, muxStore, info, udid, conns, hostCtr>>
    /\ UNCHANGED rest

\* lines 468-476: return True when enabled, else send action 1 (reboot_ok) or 0;
\* data keeps what this call has been answered so far
EN_Status ==
    /\ At("enable_ios16_developer_mode", "status")
    /\ IF rv[1]
       THEN Return(stack, TRUE)
       ELSE /\ stack' = LET st2 == SetTop(stack, [Top EXCEPT !.data = <<<<"status", rv[1]>>>>])
                        IN  IF Top.arg
                            THEN Call(st2, "act1", "_send_action_to_amfi_lockdown", 1)
                            ELSE Call(st2, "act0", "_send_action_to_amfi_lockdown", 0)
            /\ rv' = None
            /\ UNCHANGED result
    /\ UNCHANGED <<pair_record, muxStore, info, udid, conns, hostCtr>>
    /\ UNCHANGED rest

\* lines 472-476: 0xe6 to action 1 raises, else action 0 is sent
EN_Action1 ==
    /\ At("enable_ios16_developer_mode", "act1")
    /\ IF rv[1] = RespRebooting
       THEN Raise(stack, conns, Exc("ServiceError", "Device is rebooting"))
       ELSE /\ stack' = Call(SetTop(stack, [Top EXCEPT !.data = Append(@, <<"amfi", 1, rv[1]>>)]),
                             "act0", "_send_action_to_amfi_lockdown", 0)
            /\ rv' = None
            /\ UNCHANGED <<result, conns>>
    /\ UNCHANGED <<pair_record, muxStore, info, udid, hostCtr>>
    /\ UNCHANGED rest

\* lines 477-480: every response to action 0 raises ServiceError
EN_Action0 ==
    /\ At("enable_ios16_developer_mode", "act0")
    /\ Raise(stack, conns,
             Exc("ServiceError",
                 IF rv[1] = RespNotEnabled THEN "Developer Mode is not opened"
                 ELSE "Failed to enable Developer Mode"))
    /\ UNCHANGED <<pair_record, muxStore, info, udid, hostCtr>>
    /\ UNCHANGED rest

----------------------------------------------------------------------------
(* BaseDevice.mount_developer_image(reboot_ok) *)

\* "ImageMountFailed" in str(err)
MentionsImageMountFailed(msg) == msg = "ImageMountFailed"

\* line 642: product_version = self.get_value("ProductVersion")
MDI_Start ==
    /\ At("mount_developer_image", "start")
    /\ stack' = Call(Emit(stack, <<"mount">>), "ver", "get_value",
                     GvArg("ProductVersion", FALSE))
    /\ UNCHANGED <<rv, result, pair_record, muxStore, info, udid, conns, hostCtr>>
    /\ UNCHANGED rest

\* lines 643-644: on iOS >= 16 enable_ios16_developer_mode(reboot_ok)
MDI_Version ==
    /\ At("mount_developer_image", "ver")
    /\ LET st2 == SetTop(stack, [Top EXCEPT !.data = [version |-> rv[1], guess |-> rv[1][2],
                                                    tried |-> <<>>]])
       IN  stack' = IF rv[1][1] >= 16
                    THEN Call(st2, "probe", "enable_ios16_developer_mode", Top.arg)
                    ELSE Goto(st2, "probe")
    /\ rv' = None
    /\ UNCHANGED <<result, pair_record, muxStore, info, udid, conns, hostCtr>>
    /\ UNCHANGED rest

\* line 646: self.imagemounter, inside try
MDI_Probe ==
    /\ At("mount_developer_image", "probe")
    /\ stack' = Call(stack, "im1", "_unsafe_start_service", ImageMounterService)
    /\ rv' = None
    /\ UNCHANGED <<result, pair_record, muxStore, info, udid, conns, hostCtr>>
    /\ UNCHANGED rest

\* lines 646-650: is_developer_mounted(): mounted returns, MuxError is passed over
MDI_IsMounted ==
    /\ At("mount_developer_image", "im1")
    /\ conns' = Abandon(conns, {rv[1]})
    /\ \E out \in {"mounted", "not mounted", "MuxError"} :
        IF out = "mounted"
        THEN Return(stack, "None")
        ELSE /\ stack' = Goto(stack, "test")
             /\ rv' = None
             /\ UNCHANGED result
    /\ UNCHANGED <<pair_record, muxStore, info, udid, hostCtr>>
    /\ UNCHANGED rest

\* line 652: self._test_if_developer_mounted()
MDI_Test ==
    /\ At("mount_developer_image", "test")
    /\ stack' = Call(stack, "tested", "_test_if_developer_mounted", <<>>)
    /\ UNCHANGED <<rv, result, pair_record, muxStore, info, udid, conns, hostCtr>>
    /\ UNCHANGED rest

\* lines 652-657: mounted returns, else the loop starts at the device's minor
MDI_Tested ==
    /\ At("mount_developer_image", "tested")
    /\ IF rv[1]
       THEN Return(stack, "None")
       ELSE /\ stack' = Goto(stack, "loop")
            /\ rv' = None
            /\ UNCHANGED result
    /\ UNCHANGED <<pair_record, muxStore, info, udid, conns, hostCtr>>
    /\ UNCHANGED rest

\* what became of a guess: no image directory, or the outcome of mount()
NoDirectory == "no directory"
MountOutcomes == {"ok", "ImageMountFailed", "DeviceLocked"}

\* the frame after guess g ended with outcome out
Tried(f, out) == [f EXCEPT !.data.tried = Append(@, <<f.data.guess, out>>)]

\* a loop that gives up at the first version without an image directory
MDI_Loop_StopsAtMissing ==
    /\ At("mount_developer_image", "loop")
    /\ IF Top.data.guess < 0
       THEN Raise(stack, conns, Exc("ServiceError", "DeveloperImage not found"))
       ELSE \E found \in BOOLEAN :
            IF found
            THEN /\ stack' = Call(stack, "im2", "_unsafe_start_service",
                                  ImageMounterService)
                 /\ UNCHANGED <<rv, result, conns>>
            ELSE Raise(SetTop(stack, Tried(Top, NoDirectory)), conns,
                       Exc("ServiceError", "DeveloperImage not found"))
    /\ UNCHANGED <<pair_record, muxStore, info, udid, hostCtr>>
    /\ UNCHANGED rest

\* lines 657-664, 672: the next guess; its image directory; self.imagemounter
MDI_Loop ==
    /\ At("mount_developer_image", "loop")
    /\ IF Top.data.guess < 0
       THEN Raise(stack, conns, Exc("ServiceError", "DeveloperImage not found"))
       ELSE \E found \in BOOLEAN :
            /\ stack' = IF found
                        THEN Call(stack, "im2", "_unsafe_start_service",
                                  ImageMounterService)
                        ELSE SetTop(stack, [Tried(Top, NoDirectory) EXCEPT
                                               !.data.guess = @ - 1])
            /\ UNCHANGED <<rv, result, conns>>
    /\ UNCHANGED <<pair_record, muxStore, info, udid, hostCtr>>
    /\ UNCHANGED rest

\* line 664: self.imagemounter.mount(image_path, signature_path)
MDI_Mount ==
    /\ At("mount_developer_image", "im2")
    /\ \E out \in MountOutcomes :
        stack' = SetTop(stack, [Tried(Top, out) EXCEPT !.pc = "im2_done"])
    /\ conns' = Abandon(conns, {rv[1]})
    /\ rv' = None
    /\ UNCHANGED <<result, pair_record, muxStore, info, udid, hostCtr>>
    /\ UNCHANGED rest

\* lines 665-671: mounted returns; ImageMountFailed moves on, another MuxError
\* raises ServiceError
MDI_Mounted ==
    /\ At("mount_developer_image", "im2_done")
    /\ LET out == Top.data.tried[Len(Top.data.tried)][2] IN
       CASE out = "ok" ->
                /\ Return(stack, "None")
                /\ UNCHANGED conns
          [] MentionsImageMountFailed(out) ->
                /\ stack' = SetTop(stack, [Top EXCEPT !.pc = "loop", !.data.guess = @ - 1])
                /\ UNCHANGED <<rv, result, conns>>
          [] OTHER ->
                Raise(stack, conns, Exc("ServiceError", "ImageMountFailed"))
    /\ UNCHANGED <<pair_record, muxStore, info, udid, hostCtr>>
    /\ UNCHANGED rest

\* lines 667-671: a MuxError raised while self.imagemounter starts the service
MDI_MountErr ==
    /\ At("mount_developer_image", "im2_err")
    /\ IF MentionsImageMountFailed(Top.err[1].msg)
       THEN /\ stack' = SetTop(stack, [Tried(Top, "imagemounter") EXCEPT
                                          !.pc = "loop", !.data.guess = @ - 1])
            /\ UNCHANGED <<rv, result, conns>>
       ELSE Raise(SetTop(stack, Tried(Top, "imagemounter")), conns,
                  Exc("ServiceError", "ImageMountFailed"))
    /\ UNCHANGED <<pair_record, muxStore, info, udid, hostCtr>>
    /\ UNCHANGED rest

----------------------------------------------------------------------------
(* BaseDevice.connect_instruments, under @retry(SocketError, ...) *)

\* line 802: tries=3, delay=5, jitter=3
Tries == 3
Delay == 5
Jitter == 3

\* the decorator starts with all its tries and the first delay
CI_Start ==
    /\ At("connect_instruments", "start")
    /\ stack' = SetTop(stack, [Top EXCEPT !.pc = "attempt",
                                          !.data = [tries |-> Tries, delay |-> Delay]])
    /\ UNCHANGED <<rv, result, pair_record, muxStore, info, udid, conns, hostCtr>>
    /\ UNCHANGED rest

\* line 805: an attempt begins with self.major_version()
CI_Attempt ==
    /\ At("connect_instruments", "attempt")
    /\ stack' = Call(Emit(stack, <<"attempt">>), "ver", "get_value",
                     GvArg("ProductVersion", FALSE))
    /\ UNCHANGED <<rv, result, pair_record, muxStore, info, udid, conns, hostCtr>>
    /\ UNCHANGED rest

\* lines 805-809: the secure service from iOS 14 on
CI_Version ==
    /\ At("connect_instruments", "ver")
    /\ SSDepth < MaxDepth
    /\ stack' = Call(stack, "conn", "start_service",
                     IF rv[1][1] >= 14 THEN InstrumentsRemoteServerSecure
                     ELSE InstrumentsRemoteServer)
    /\ rv' = None
    /\ UNCHANGED <<result, pair_record, muxStore, info, udid, conns, hostCtr>>
    /\ UNCHANGED rest

\* line 811: ServiceInstruments(conn) talks on the connection: the pipe may break
CI_Instruments ==
    /\ At("connect_instruments", "conn")
    /\ \E broken \in BOOLEAN :
        IF broken
        THEN Raise(stack, Abandon(conns, {rv[1]}), Exc("SocketError", "BrokenPipe"))
        ELSE /\ Return(stack, rv[1])
             /\ UNCHANGED conns
    /\ UNCHANGED <<pair_record, muxStore, info, udid, hostCtr>>
    /\ UNCHANGED rest

\* a decorator that gives up at the first SocketError
CI_Failed_NoRetry ==
    /\ At("connect_instruments", "failed")
    /\ Raise(Emit(stack, <<"failed", Top.err[1].kind>>), conns, Top.err[1])
    /\ UNCHANGED <<pair_record, muxStore, info, udid, hostCtr>>
    /\ UNCHANGED rest

\* the decorator's except clause: one try less; none left re-raises, else it
\* sleeps the delay, lengthens it by the jitter and goes round again
CI_Failed ==
    /\ At("connect_instruments", "failed")
    /\ LET st2 == Emit(stack, <<"failed", Top.err[1].kind>>)
           st3 == Emit(st2, <<"sleep", Top.data.delay>>)
       IN  IF Top.data.tries - 1 = 0
           THEN Raise(st2, conns, Top.err[1])
           ELSE /\ stack' = SetTop(st3, [st3[Len(st3)] EXCEPT
                                            !.pc = "attempt",
                                            !.data = [tries |-> Top.data.tries - 1,
                                                      delay |-> Top.data.delay + Jitter]])
                /\ UNCHANGED <<rv, result, conns>>
    /\ UNCHANGED <<pair_record, muxStore, info, udid, hostCtr>>
    /\ UNCHANGED rest

----------------------------------------------------------------------------
(* The lockdown client: services *)

ServiceNames == {AFC, AmfiLockdown}

CallStartService ==
    /\ result.calls < MaxServiceCalls
    /\ \E name \in ServiceNames : TopCall("start_service", name)

CallMount ==
    /\ result.calls < MaxServiceCalls
    /\ \E reboot_ok \in BOOLEAN : TopCall("mount_developer_image", reboot_ok)

CallConnectInstruments ==
    /\ result.calls < MaxServiceCalls
    /\ TopCall("connect_instruments", <<>>)

ServiceSteps ==
    \/ CIC_PemFile \/ CIC_SwitchToSsl
    \/ USS_Start \/ USS_StartService \/ USS_Reply \/ USS_Return
    \/ SS_Try \/ SS_Return \/ SS_Mount \/ SS_Retry \/ SS_RetryReturn
    \/ TM_Start \/ TM_Inner \/ TM_True \/ TM_False
    \/ SA_Start \/ SA_Send
    \/ EN_Start \/ EN_Status \/ EN_Action1 \/ EN_Action0
    \/ MDI_Start \/ MDI_Version \/ MDI_Probe \/ MDI_IsMounted \/ MDI_Test
    \/ MDI_Tested \/ MDI_Loop \/ MDI_Mount \/ MDI_Mounted \/ MDI_MountErr
    \/ CI_Start \/ CI_Attempt \/ CI_Version \/ CI_Instruments \/ CI_Failed

ServiceNext ==
    \/ CallStartService \/ CallMount \/ CallConnectInstruments
    \/ SessionSteps
    \/ ServiceSteps

ServiceSpec == Init /\ [][ServiceNext]_vars

----------------------------------------------------------------------------
(* BaseDevice.xcuitest *)

\* messages the device sends on x2 while one test run lasts
MaxMessages == 2

\* line 1009
XCODE_VERSION == 29

FINISHED == "FINISHED"
DaemonChannel ==
    "dtxproxy:XCTestManager_IDEInterface:XCTestManager_DaemonConnectionInterface"
TestBundleReady == "_XCT_testBundleReadyWithProtocolVersion:minimumVersion:"
LogDebugMessage == "_XCT_logDebugMessage:"
TestSuiteDidFinish ==
    "_XCT_testSuite:didFinishAt:runCount:withFailures:unexpected:testDuration:totalDuration:"
TestRunnerReady == "_XCT_testRunnerReadyWithCapabilities:"

\* iOS versions on either side of the version tests of lines 1023, 1134, 1139
XVersions == {<<9, 3>>, <<10, 3>>, <<11, 4>>, <<13, 1>>}

Pids == {101, 102}

\* failure_count of the test suites that report
FailureCounts == {0, 2}

\* m.result of a _XCT_testSuite:didFinishAt:... message: a (selector, arguments)
\* pair whose arguments make an XCTestResult, or one of the malformed shapes
SuiteResults ==
    { [sel |-> TestSuiteDidFinish, shape |-> "pair", failure_count |-> n] :
          n \in FailureCounts }
    \cup
    { [sel |-> TestSuiteDidFinish, shape |-> sh, failure_count |-> 0] :
          sh \in {"not a sequence", "empty", "length 1", "arguments not a sequence",
                  "wrong argument count"} }

StartExecuting == "_IDE_startExecutingTestPlanWithProtocolVersion:"

\* text is a sequence of symbols; ReadyReply stands for the literal
\* "Received test runner ready reply" of line 1053
ReadyReply == <<"Received test runner", " ready reply">>

\* m.result[1] of a _XCT_logDebugMessage: message, a list of strings: the
\* literal inside one string, split over two strings, interrupted, absent
LogArguments ==
    { << <<"log: ">> \o ReadyReply >>,
      << <<ReadyReply[1]>>, <<ReadyReply[2]>> >>,
      << <<ReadyReply[1]>>, <<"\n">>, <<ReadyReply[2]>> >>,
      << <<"Running tests...">> >> }

\* ''.join(parts)
RECURSIVE Join(_)
Join(parts) == IF parts = <<>> THEN <<>> ELSE Head(parts) \o Join(Tail(parts))

\* sub in text
Contains(text, sub) ==
    \E k \in 0..(Len(text) - Len(sub)) : SubSeq(text, k + 1, k + Len(sub)) = sub

\* channels the runner's messages arrive on
ChannelIds == {1, 2}

\* the messages of the test runner that xcuitest has callbacks for, as the
\* reader of x2 hands them over; n is the message's identifier
RunnerMessages(n) ==
    { [sel |-> TestBundleReady] }
    \cup { [sel |-> LogDebugMessage, arguments |-> a] : a \in LogArguments }
    \cup { [sel |-> TestRunnerReady, channel_id |-> c, message_id |-> n] : c \in ChannelIds }

\* a callback handed to a worker with its message
Task(m) == [m |-> m, pc |-> "start"]

\* the XCTestConfiguration objects of a run (one per session_identifier)
Configurations == {"configuration A", "configuration B"}

\* XCTestResult(*m.result[1])
XCTestResult(m) == [failure_count |-> m.failure_count]

major_version == device.version[1]

XAt(pc) == xpc = pc

\* an exception leaves xcuitest
XRaise(e) ==
    /\ xpc' = "done"
    /\ xout' = [xout EXCEPT !.status = "raised", !.exc = e, !.at = xpc]

\* a synchronous call on connection c needs the connection alive
Alive(c) == xconn[c].state = "open"

XSent(xc, c, msg) == [xc EXCEPT ![c].sent = Append(@, msg)]

Registered(xc, c, sels) == [xc EXCEPT ![c].callbacks = @ \cup sels]

\* the call xcuitest(bundle_id)
X_Call ==
    /\ XAt("idle")
    /\ xpc' = "version"
    /\ xout' = [xout EXCEPT !.status = "running"]
    /\ UNCHANGED <<xloc, xconn, quit_event, test_results, workers, cb_done>>
    /\ UNCHANGED handle

\* line 1005: product_version = self.get_value("ProductVersion")
X_ProductVersion ==
    /\ XAt("version")
    /\ \E ok \in BOOLEAN :
        IF ok
        THEN xpc' = "connect1" /\ UNCHANGED xout
        ELSE XRaise(Exc("MuxError", "get_value"))
    /\ UNCHANGED <<xloc, xconn, quit_event, test_results, workers, cb_done>>
    /\ UNCHANGED handle

\* line 1017: x1 = self._connect_testmanagerd_lockdown()
X_Connect1 ==
    /\ XAt("connect1")
    /\ \E ok \in BOOLEAN :
        IF ok
        THEN /\ xpc' = "control"
             /\ xconn' = [xconn EXCEPT !["x1"].state = "open"]
             /\ UNCHANGED xout
        ELSE /\ XRaise(Exc("MuxError", "start_service"))
             /\ UNCHANGED xconn
    /\ UNCHANGED <<xloc, quit_event, test_results, workers, cb_done>>
    /\ UNCHANGED handle

\* an x1 that starts the control session whatever the iOS version is
X_Control_AnyVersion ==
    /\ XAt("control")
    /\ IF ~Alive("x1")
       THEN XRaise(Exc("MuxError", "connection closed")) /\ UNCHANGED xconn
       ELSE /\ xpc' = "register1"
            /\ xconn' = XSent(XSent(xconn, "x1", <<"make_channel", DaemonChannel>>), "x1",
                              <<"_IDE_initiateControlSessionWithProtocolVersion:",
                                XCODE_VERSION>>)
            /\ UNCHANGED xout
    /\ UNCHANGED <<xloc, quit_event, test_results, workers, cb_done>>
    /\ UNCHANGED handle

\* lines 1020-1028: the daemon channel of x1 and, from iOS 11 on, the control
\* session with XCODE_VERSION
X_Control ==
    /\ XAt("control")
    /\ IF ~Alive("x1")
       THEN XRaise(Exc("MuxError", "connection closed")) /\ UNCHANGED xconn
       ELSE /\ xpc' = "register1"
            /\ xconn' =
                 IF major_version >= 11
                 THEN XSent(XSent(xconn, "x1", <<"make_channel", DaemonChannel>>), "x1",
                            <<"_IDE_initiateControlSessionWithProtocolVersion:",
                              XCODE_VERSION>>)
                 ELSE XSent(xconn, "x1", <<"make_channel", DaemonChannel>>)
            /\ UNCHANGED xout
    /\ UNCHANGED <<xloc, quit_event, test_results, workers, cb_done>>
    /\ UNCHANGED handle

\* line 1029: x1.register_callback(Event.FINISHED, lambda _: quit_event.set())
X_Register1 ==
    /\ XAt("register1")
    /\ xpc' = "connect2"
    /\ xconn' = Registered(xconn, "x1", {FINISHED})
    /\ UNCHANGED <<xloc, xout, quit_event, test_results, workers, cb_done>>
    /\ UNCHANGED handle

\* line 1033: x2 = self._connect_testmanagerd_lockdown()
X_Connect2 ==
    /\ XAt("connect2")
    /\ \E ok \in BOOLEAN :
        IF ok
        THEN /\ xpc' = "channel2"
             /\ xconn' = [xconn EXCEPT !["x2"].state = "open"]
             /\ UNCHANGED xout
        ELSE /\ XRaise(Exc("MuxError", "start_service"))
             /\ UNCHANGED xconn
    /\ UNCHANGED <<xloc, quit_event, test_results, workers, cb_done>>
    /\ UNCHANGED handle

\* lines 1034-1036: the daemon channel of x2
X_Channel2 ==
    /\ XAt("channel2")
    /\ IF ~Alive("x2")
       THEN XRaise(Exc("MuxError", "connection closed")) /\ UNCHANGED xconn
       ELSE /\ xpc' = "register2"
            /\ xconn' = XSent(xconn, "x2", <<"make_channel", DaemonChannel>>)
            /\ UNCHANGED xout
    /\ UNCHANGED <<xloc, quit_event, test_results, workers, cb_done>>
    /\ UNCHANGED handle

\* line 1037: x2.register_callback(Event.FINISHED, lambda _: quit_event.set())
X_Register2 ==
    /\ XAt("register2")
    /\ xpc' = "callbacks"
    /\ xconn' = Registered(xconn, "x2", {FINISHED})
    /\ UNCHANGED <<xloc, xout, quit_event, test_results, workers, cb_done>>
    /\ UNCHANGED handle

\* lines 1075-1091: the callbacks of x2; between them installation.lookup and
\* the XCTestConfiguration
X_Callbacks ==
    /\ XAt("callbacks")
    /\ \E ok \in BOOLEAN :
        IF ok
        THEN /\ xpc' = "session"
             /\ xconn' = Registered(xconn, "x2",
                            {TestBundleReady, LogDebugMessage, TestSuiteDidFinish,
                             TestRunnerReady})
             /\ \E cfg \in Configurations : xloc' = [xloc EXCEPT !.config = Some(cfg)]
             /\ UNCHANGED xout
        ELSE /\ XRaise(Exc("MuxError", "installation.lookup"))
             /\ xconn' = Registered(xconn, "x2",
                            {TestBundleReady, LogDebugMessage, TestSuiteDidFinish})
             /\ UNCHANGED xloc
    /\ UNCHANGED <<quit_event, test_results, workers, cb_done>>
    /\ UNCHANGED handle

\* lines 1094-1103: _IDE_initiateSessionWithIdentifier:... on x2
InitiateSession == "_IDE_initiateSessionWithIdentifier:forClient:atPath:protocolVersion:"

\* an initiateSession that goes on whatever the result is
X_InitiateSession_Unchecked ==
    /\ XAt("session")
    /\ IF ~Alive("x2")
       THEN XRaise(Exc("MuxError", "connection closed")) /\ UNCHANGED <<xconn, xloc>>
       ELSE /\ xconn' = XSent(xconn, "x2", <<InitiateSession, XCODE_VERSION>>)
            /\ \E reply \in {"ok", "NSError"} :
                /\ xloc' = [xloc EXCEPT !.session_result = Some(reply)]
                /\ xpc' = "launch"
                /\ UNCHANGED xout
    /\ UNCHANGED <<quit_event, test_results, workers, cb_done>>
    /\ UNCHANGED handle

\* lines 1093-1103: initiateSession on x2; a result with NSError raises
X_InitiateSession ==
    /\ XAt("session")
    /\ IF ~Alive("x2")
       THEN XRaise(Exc("MuxError", "connection closed")) /\ UNCHANGED <<xconn, xloc>>
       ELSE /\ xconn' = XSent(xconn, "x2", <<InitiateSession, XCODE_VERSION>>)
            /\ \E reply \in {"ok", "NSError"} :
                /\ xloc' = [xloc EXCEPT !.session_result = Some(reply)]
                /\ IF reply = "NSError"
                   THEN XRaise(Exc("RuntimeError", "Xcode Invocation Failed"))
                   ELSE xpc' = "launch" /\ UNCHANGED xout
    /\ UNCHANGED <<quit_event, test_results, workers, cb_done>>
    /\ UNCHANGED handle

\* what the device may answer to the launch instead of a pid
LaunchFailures == {"NSError: The operation couldn't be completed.", "Failed to launch process"}

\* the answers to the launch: an int (the pid) or something else
LaunchReplies ==
    {<<"int", p>> : p \in Pids} \cup {<<"other", f>> : f \in LaunchFailures}

\* isinstance(pid, int)
IsInt(reply) == reply[1] = "int"

LaunchSuspended ==
    "launchSuspendedProcessWithDevicePath:bundleIdentifier:environment:arguments:options:"

NOTIFICATION == "NOTIFICATION"

\* lines 1108-1113: _, pid = self._launch_wda_app(...), without a quit_event;
\* lines 847-867: the app's info, then the configuration pushed into the
\* runner's container
X_PushConfiguration ==
    /\ XAt("launch")
    /\ \E ok \in BOOLEAN :
        IF ok
        THEN /\ xpc' = "launch_process"
             /\ xloc' = [xloc EXCEPT !.container = xloc.config]
             /\ UNCHANGED xout
        ELSE /\ XRaise(Exc("MuxError", "app_sync"))
             /\ UNCHANGED xloc
    /\ UNCHANGED <<xconn, quit_event, test_results, workers, cb_done>>
    /\ UNCHANGED handle

\* a launch that goes on to observe whatever the device answered
X_Launch_Unchecked ==
    /\ XAt("launch_process")
    /\ \E reply \in LaunchReplies :
        /\ xpc' = "observe"
        /\ xloc' = [xloc EXCEPT !.pid = IF IsInt(reply) THEN reply[2] ELSE 101,
                                !.launch_reply = Some(reply),
                                !.ins_sent = Append(@, <<LaunchSuspended>>)]
        /\ UNCHANGED xout
    /\ UNCHANGED <<xconn, quit_event, test_results, workers, cb_done>>
    /\ UNCHANGED handle

\* lines 869-926: connect_instruments, the ProcessControl channel and the
\* launch; an answer that is not an int raises MuxError("Launch failed")
X_Launch ==
    /\ XAt("launch_process")
    /\ \E connected \in BOOLEAN :
        IF ~connected
        THEN XRaise(Exc("MuxError", "connect_instruments")) /\ UNCHANGED xloc
        ELSE \E reply \in LaunchReplies :
             IF IsInt(reply)
             THEN /\ xpc' = "observe"
                  /\ xloc' = [xloc EXCEPT !.pid = reply[2],
                                          !.launch_reply = Some(reply),
                                          !.ins_sent = Append(@, <<LaunchSuspended>>)]
                  /\ UNCHANGED xout
             ELSE /\ XRaise(Exc("MuxError", "Launch failed"))
                  /\ xloc' = [xloc EXCEPT !.launch_reply = Some(reply),
                                          !.ins_sent = Append(@, <<LaunchSuspended>>)]
    /\ UNCHANGED <<xconn, quit_event, test_results, workers, cb_done>>
    /\ UNCHANGED handle

\* lines 928-951: startObservingPid: with the pid, the callbacks of the
\* instruments connection (no FINISHED callback: xcuitest passes no quit_event)
X_Observe ==
    /\ XAt("observe")
    /\ xpc' = "authorize"
    /\ xloc' = [xloc EXCEPT !.ins_sent = Append(@, <<"startObservingPid:", xloc.pid>>),
                            !.ins_callbacks = {LogDebugMessage, NOTIFICATION}]
    /\ UNCHANGED <<xout, xconn, quit_event, test_results, workers, cb_done>>
    /\ UNCHANGED handle

\* an authorization that knows only the selector of iOS 12 and later
Authorization_NewestOnly ==
    <<"_IDE_authorizeTestSessionWithProcessID:", xloc.pid>>

\* lines 1134-1149: the selector that authorizes the test session on this iOS
Authorization ==
    IF major_version >= 12
    THEN <<"_IDE_authorizeTestSessionWithProcessID:", xloc.pid>>
    ELSE IF major_version <= 9
    THEN <<"_IDE_initiateControlSessionForTestProcessID:", xloc.pid>>
    ELSE <<"_IDE_initiateControlSessionForTestProcessID:protocolVersion:", xloc.pid,
           XCODE_VERSION>>

\* lines 1134-1152: the authorization call on x1
X_Authorize ==
    /\ XAt("authorize")
    /\ IF ~Alive("x1")
       THEN XRaise(Exc("MuxError", "connection closed")) /\ UNCHANGED <<xconn, xloc>>
       ELSE /\ xconn' = XSent(xconn, "x1", Authorization)
            /\ \E reply \in {"ok", "NSError"} :
                /\ xloc' = [xloc EXCEPT !.auth_result = Some(reply)]
                /\ IF reply = "NSError"
                   THEN XRaise(Exc("RuntimeError", "Xcode Invocation Failed"))
                   ELSE xpc' = "wait" /\ UNCHANGED xout
    /\ UNCHANGED <<quit_event, test_results, workers, cb_done>>
    /\ UNCHANGED handle

\* a wait loop that does not look at quit_event
X_Wait_NoBlock ==
    /\ XAt("wait")
    /\ xpc' = "report"
    /\ UNCHANGED <<xloc, xout, xconn, quit_event, test_results, workers, cb_done>>
    /\ UNCHANGED handle

\* lines 1156-1157: while not quit_event.wait(.1): pass
X_Wait ==
    /\ XAt("wait")
    /\ quit_event
    /\ xpc' = "report"
    /\ UNCHANGED <<xloc, xout, xconn, quit_event, test_results, workers, cb_done>>
    /\ UNCHANGED handle

\* line 1159: test_result_str = "\n".join(map(str, test_results))
X_Report ==
    /\ XAt("report")
    /\ xpc' = "verdict"
    /\ xloc' = [xloc EXCEPT !.listed = test_results]
    /\ UNCHANGED <<xout, xconn, quit_event, test_results, workers, cb_done>>
    /\ UNCHANGED handle

\* a verdict that fails on every recorded result
X_Verdict_AnyResult ==
    /\ XAt("verdict")
    /\ xpc' = "done"
    /\ xout' = IF test_results # <<>>
               THEN [xout EXCEPT !.status = "raised", !.at = xpc, !.seen = test_results,
                                 !.exc = Exc("RuntimeError", "Xcode test failed")]
               ELSE [xout EXCEPT !.status = "returned", !.at = xpc,
                                 !.seen = test_results]
    /\ UNCHANGED <<xloc, xconn, quit_event, test_results, workers, cb_done>>
    /\ UNCHANGED handle

\* lines 1160-1166: any(result.failure_count > 0 ...) raises RuntimeError with
\* test_result_str, else the call returns
X_Verdict ==
    /\ XAt("verdict")
    /\ xpc' = "done"
    /\ xout' = IF \E k \in DOMAIN test_results : test_results[k].failure_count > 0
               THEN [xout EXCEPT !.status = "raised", !.at = xpc, !.seen = test_results,
                                 !.exc = Exc("RuntimeError", "Xcode test failed")]
               ELSE [xout EXCEPT !.status = "returned", !.at = xpc,
                                 !.seen = test_results]
    /\ UNCHANGED <<xloc, xconn, quit_event, test_results, workers, cb_done>>
    /\ UNCHANGED handle

\* the steps of the orchestrator
XOrchestrator ==
    \/ X_Call \/ X_ProductVersion \/ X_Connect1 \/ X_Control \/ X_Register1
    \/ X_Connect2 \/ X_Channel2 \/ X_Register2 \/ X_Callbacks \/ X_InitiateSession
    \/ X_PushConfiguration \/ X_Launch \/ X_Observe
    \/ X_Authorize \/ X_Wait \/ X_Report \/ X_Verdict

----------------------------------------------------------------------------
(* The reader threads of x1 and x2 and the callback workers *)

\* connection c closes: its reader fires FINISHED once, calling the handlers
\* registered by then
X_Finished(c) ==
    /\ xpc \notin {"idle", "done"}
    /\ Alive(c)
    /\ xconn' = [xconn EXCEPT ![c].state = "closed", ![c].fired = TRUE]
    /\ quit_event' = (quit_event \/ FINISHED \in xconn[c].callbacks)
    /\ UNCHANGED <<xpc, xloc, xout, test_results, workers, cb_done>>
    /\ UNCHANGED handle

X_Finished1 == X_Finished("x1")
X_Finished2 == X_Finished("x2")

\* the reader of x2 takes a message of the test runner and hands its
\* callback, when one is registered, to a worker
X_Receive ==
    /\ xpc \notin {"idle", "done"}
    /\ Alive("x2")
    /\ xconn["x2"].received < MaxMessages
    /\ \E m \in SuiteResults \cup RunnerMessages(xconn["x2"].received + 1) :
        /\ xconn' = [xconn EXCEPT !["x2"].received = @ + 1]
        /\ workers' = IF m.sel \in xconn["x2"].callbacks
                      THEN Append(workers, Task(m))
                      ELSE workers
    /\ UNCHANGED <<xpc, xloc, xout, quit_event, test_results, cb_done>>
    /\ UNCHANGED handle

\* the callback of message m has run and ended with outcome
Ran(m, outcome) == [m |-> m, outcome |-> outcome]

\* lines 1061-1073: how _record_test_result_callback(m) ends
RecordOutcome(m) ==
    CASE m.shape \in {"not a sequence", "empty"} -> "ignored"
      [] m.shape = "length 1" -> "IndexError"
      [] m.shape \in {"arguments not a sequence", "wrong argument count"} -> "ignored"
      [] OTHER -> "appended"

Without(q, i) == [k \in 1..(Len(q) - 1) |-> IF k < i THEN q[k] ELSE q[k + 1]]

\* lines 1061-1073: a worker runs _record_test_result_callback(m)
X_Record ==
    /\ \E i \in DOMAIN workers :
        LET m == workers[i].m IN
        /\ m.sel = TestSuiteDidFinish
        /\ workers' = Without(workers, i)
        /\ cb_done' = Append(cb_done, Ran(m, RecordOutcome(m)))
        /\ test_results' = IF RecordOutcome(m) = "appended"
                           THEN Append(test_results, XCTestResult(m))
                           ELSE test_results
    /\ UNCHANGED <<xpc, xloc, xout, xconn, quit_event>>
    /\ UNCHANGED handle

\* a _show_log_message that takes every log message for the ready reply
X_ShowLogMessage_AnyLog ==
    /\ \E i \in DOMAIN workers :
        /\ workers[i].m.sel = LogDebugMessage
        /\ workers[i].pc = "start"
        /\ workers' = [workers EXCEPT ![i].pc = "_start_executing"]
        /\ UNCHANGED cb_done
    /\ UNCHANGED <<xpc, xloc, xout, xconn, quit_event, test_results>>
    /\ UNCHANGED handle

\* lines 1051-1056: a worker runs _show_log_message(m): the literal in the
\* joined text calls _start_executing()
X_ShowLogMessage ==
    /\ \E i \in DOMAIN workers :
        LET m == workers[i].m IN
        /\ m.sel = LogDebugMessage
        /\ workers[i].pc = "start"
        /\ IF Contains(Join(m.arguments), ReadyReply)
           THEN /\ workers' = [workers EXCEPT ![i].pc = "_start_executing"]
                /\ UNCHANGED cb_done
           ELSE /\ workers' = Without(workers, i)
                /\ cb_done' = Append(cb_done, Ran(m, "logged"))
    /\ UNCHANGED <<xpc, xloc, xout, xconn, quit_event, test_results>>
    /\ UNCHANGED handle

\* lines 1042-1044: _start_executing, as the callback of the test bundle's
\* ready message or called by _show_log_message: return when _start_flag is set
X_StartFlag ==
    /\ \E i \in DOMAIN workers :
        LET m == workers[i].m IN
        /\ \/ m.sel = TestBundleReady /\ workers[i].pc = "start"
           \/ m.sel = LogDebugMessage /\ workers[i].pc = "_start_executing"
        /\ IF xloc.start_flag
           THEN /\ workers' = Without(workers, i)
                /\ cb_done' = Append(cb_done, Ran(m, "returned"))
           ELSE /\ workers' = [workers EXCEPT ![i].pc = "set"]
                /\ UNCHANGED cb_done
    /\ UNCHANGED <<xpc, xloc, xout, xconn, quit_event, test_results>>
    /\ UNCHANGED handle

\* lines 1045-1049: _start_flag.set() and the call on x2, no reply expected
X_StartExecuting ==
    /\ \E i \in DOMAIN workers :
        LET m == workers[i].m IN
        /\ workers[i].pc = "set"
        /\ workers' = Without(workers, i)
        /\ xloc' = [xloc EXCEPT !.start_flag = TRUE]
        /\ IF Alive("x2")
           THEN /\ xconn' = XSent(xconn, "x2", <<StartExecuting, XCODE_VERSION>>)
                /\ cb_done' = Append(cb_done, Ran(m, "started"))
           ELSE /\ UNCHANGED xconn
                /\ cb_done' = Append(cb_done, Ran(m, "connection closed"))
    /\ UNCHANGED <<xpc, xout, quit_event, test_results>>
    /\ UNCHANGED handle

\* the answer to message m: DTXPayload.build_other(0x03, xctest_configuration)
\* on m's channel with m's identifier
ReadyReplyTo(m, cfg) ==
    <<"send_dtx_message", m.channel_id, m.message_id, 3, cfg>>

\* a _ready_with_caps_callback that answers under an identifier of its own
X_ReadyWithCaps_OwnId ==
    /\ \E i \in DOMAIN workers :
        LET m == workers[i].m IN
        /\ m.sel = TestRunnerReady
        /\ workers' = Without(workers, i)
        /\ IF Alive("x2")
           THEN /\ xconn' = XSent(xconn, "x2",
                                  ReadyReplyTo([m EXCEPT !.message_id = 0], xloc.config[1]))
                /\ cb_done' = Append(cb_done, Ran(m, "sent"))
           ELSE /\ UNCHANGED xconn
                /\ cb_done' = Append(cb_done, Ran(m, "connection closed"))
    /\ UNCHANGED <<xpc, xloc, xout, quit_event, test_results>>
    /\ UNCHANGED handle

\* lines 1086-1089: a worker runs _ready_with_caps_callback(m)
X_ReadyWithCaps ==
    /\ \E i \in DOMAIN workers :
        LET m == workers[i].m IN
        /\ m.sel = TestRunnerReady
        /\ workers' = Without(workers, i)
        /\ IF Alive("x2")
           THEN /\ xconn' = XSent(xconn, "x2", ReadyReplyTo(m, xloc.config[1]))
                /\ cb_done' = Append(cb_done, Ran(m, "sent"))
           ELSE /\ UNCHANGED xconn
                /\ cb_done' = Append(cb_done, Ran(m, "connection closed"))
    /\ UNCHANGED <<xpc, xloc, xout, quit_event, test_results>>
    /\ UNCHANGED handle

XNext ==
    \/ XOrchestrator
    \/ X_Finished1 \/ X_Finished2
    \/ X_Receive
    \/ X_Record
    \/ X_ShowLogMessage \/ X_StartFlag \/ X_StartExecuting
    \/ X_ReadyWithCaps

\* the device xcuitest runs against
XInit ==
    /\ InitHandle
    /\ muxStore = Some(OldRecord)
    /\ device \in [version : XVersions, devmode : {TRUE}]
    /\ XIdle
    /\ PemIdle("missing")
    /\ AppIdle(NoFiles, <<>>)

XSpec == XInit /\ [][XNext]_vars

\* the orchestrator's thread and the workers are scheduled
XLiveSpec == XSpec /\ WF_vars(XOrchestrator) /\ WF_vars(X_Record)

----------------------------------------------------------------------------
(* BaseDevice.ssl_pemfile_path, read by several threads on one handle *)

\* thread t is at pc of ssl_pemfile_path
PemAt(t, pc) == pem.th[t].pc = pc

\* leaving `with self._lock` (line 251): the lock is released, normal exit or not
PemExit(t, status, file) ==
    pem' = [pem EXCEPT !.lock = 0,
                       !.file = file,
                       !.th[t].pc = "idle",
                       !.th[t].status = status]

\* the property self.pair_record (lines 132-136) as thread code: the cached
\* record, or the outcome of handshake() (lines 243-247) when there is none
PairRecordReads ==
    IF pair_record # None THEN {[rec |-> pair_record, store |-> muxStore, exc |-> ""]}
    ELSE IF muxStore # None
    THEN {[rec |-> muxStore, store |-> muxStore, exc |-> ""],
          [rec |-> None, store |-> muxStore, exc |-> ""]}
    ELSE {[rec |-> None, store |-> muxStore, exc |-> ""],
          [rec |-> None, store |-> muxStore, exc |-> "MuxError"],
          [rec |-> Some(OldRecord), store |-> Some(OldRecord), exc |-> ""]}

\* the variables that ssl_pemfile_path does not write
pemRest == <<stack, rv, result, info, udid, conns, hostCtr, device, xvars, app>>

\* a thread reads device.ssl_pemfile_path
PEM_Call ==
    /\ \E t \in Threads :
        /\ PemAt(t, "idle")
        /\ pem.th[t].reads < MaxPemReads
        /\ pem' = [pem EXCEPT !.th[t] = [pc |-> "lock", reads |-> @.reads + 1,
                                         status |-> "running", found |-> "",
                                         wrote |-> FALSE]]
        /\ UNCHANGED <<pair_record, muxStore>>
    /\ UNCHANGED pemRest

\* a lock.acquire() that does not wait for the lock to be free
PEM_Acquire_NoWait ==
    /\ \E t \in Threads :
        /\ PemAt(t, "lock")
        /\ pem' = [pem EXCEPT !.lock = t, !.th[t].pc = "host_id"]
        /\ UNCHANGED <<pair_record, muxStore>>
    /\ UNCHANGED pemRest

\* line 251: with self._lock (threading.Lock, line 82): blocks while it is held
PEM_Acquire ==
    /\ \E t \in Threads :
        /\ PemAt(t, "lock")
        /\ pem.lock = 0
        /\ pem' = [pem EXCEPT !.lock = t, !.th[t].pc = "host_id"]
        /\ UNCHANGED <<pair_record, muxStore>>
    /\ UNCHANGED pemRest

\* line 253: self._host_id is self.pair_record['HostID'] (line 270); no record
\* raises TypeError, a failing handshake raises its error
PEM_HostId ==
    /\ \E t \in Threads :
        /\ PemAt(t, "host_id")
        /\ \E r \in PairRecordReads :
            /\ pair_record' = r.rec
            /\ muxStore' = r.store
            /\ IF r.exc # "" \/ r.rec = None
               THEN PemExit(t, "raised", pem.file)
               ELSE pem' = [pem EXCEPT !.th[t].pc = "exists"]
    /\ UNCHANGED pemRest

\* lines 254-260: the file exists and is younger than 3 minutes: return fpath
PEM_Exists ==
    /\ \E t \in Threads :
        /\ PemAt(t, "exists")
        /\ IF pem.file.state = "fresh"
           THEN pem' = [pem EXCEPT !.lock = 0,
                                   !.th[t] = [@ EXCEPT !.pc = "idle", !.status = "returned",
                                                       !.found = "fresh"]]
           ELSE pem' = [pem EXCEPT !.th[t].pc = "open", !.th[t].found = pem.file.state]
        /\ UNCHANGED <<pair_record, muxStore>>
    /\ UNCHANGED pemRest

\* line 261: open(fpath, "wb") creates or truncates the file
PEM_Open ==
    /\ \E t \in Threads :
        /\ PemAt(t, "open")
        /\ pem' = [pem EXCEPT !.file = [state |-> "fresh", content |-> "",
                                        open |-> pem.file.open \cup {t}],
                              !.th[t].pc = "read",
                              !.th[t].wrote = TRUE]
        /\ UNCHANGED <<pair_record, muxStore>>
    /\ UNCHANGED pemRest

\* line 262: pdata = self.pair_record; an error closes the file and leaves
PEM_ReadRecord ==
    /\ \E t \in Threads :
        /\ PemAt(t, "read")
        /\ \E r \in PairRecordReads :
            /\ pair_record' = r.rec
            /\ muxStore' = r.store
            /\ IF r.exc # "" \/ r.rec = None
               THEN PemExit(t, "raised", [pem.file EXCEPT !.open = @ \ {t}])
               ELSE pem' = [pem EXCEPT !.th[t].pc = "write"]
    /\ UNCHANGED pemRest

\* lines 263-266: write the key, a newline and the certificate, close, return
PEM_Write ==
    /\ \E t \in Threads :
        /\ PemAt(t, "write")
        /\ PemExit(t, "returned", [state |-> "fresh", content |-> "pem",
                                   open |-> pem.file.open \ {t}])
        /\ UNCHANGED <<pair_record, muxStore>>
    /\ UNCHANGED pemRest

\* three minutes pass since the file was last written
PEM_Age ==
    /\ pem.file.state = "fresh"
    /\ pem' = [pem EXCEPT !.file.state = "old"]
    /\ UNCHANGED <<pair_record, muxStore>>
    /\ UNCHANGED pemRest

\* lines 138-140: another thread of the user sets device.pair_record = None
PEM_SetPairRecord ==
    /\ pair_record # None
    /\ pair_record' = None
    /\ UNCHANGED <<pem, muxStore>>
    /\ UNCHANGED pemRest

PemNext ==
    \/ PEM_Call \/ PEM_Acquire \/ PEM_HostId \/ PEM_Exists
    \/ PEM_Open \/ PEM_ReadRecord \/ PEM_Write
    \/ PEM_Age
    \/ PEM_SetPairRecord

PemInit ==
    /\ InitHandle
    /\ muxStore \in {None, Some(OldRecord)}
    /\ device \in [version : ProductVersions, devmode : {TRUE}]
    /\ XIdle
    /\ \E file \in {"missing", "fresh", "old"} : PemIdle(file)
    /\ AppIdle(NoFiles, <<>>)

PemSpec == PemInit /\ [][PemNext]_vars

----------------------------------------------------------------------------
(* BaseDevice._launch_wda_app: the configuration file in the runner's /tmp *)

\* the variables that _launch_wda_app's file transfer and app_stop do not write
appRest == <<stack, rv, result, pair_record, muxStore, info, udid, conns, hostCtr,
             device, xvars, pem>>

\* a file name is a sequence of pieces, the last one its ending
XctestSuffix == ".xctestconfiguration"

\* fname.endswith(".xctestconfiguration")
EndsWith(fname, suffix) == Len(fname) >= 1 /\ fname[Len(fname)] = suffix

\* session_identifier values (uuid4), as str() prints them
SessionIds == {"6ba7b810", "9dad11d1"}

\* str.upper()
Upper(u) ==
    CASE u = "6ba7b810" -> "6BA7B810"
      [] u = "9dad11d1" -> "9DAD11D1"
      [] OTHER -> u

TargetName == "WebDriverAgentRunner"

\* line 859: f"/tmp/{target_name}-{str(session_identifier).upper()}.xctestconfiguration"
XctestPath(target_name, session_identifier) ==
    <<target_name, "-", Upper(session_identifier), XctestSuffix>>

\* files that may lie in the runner's /tmp before the call: configurations of
\* earlier sessions (one under the lower-case name of a session), a file
\* that only mentions the ending, a profile
OldFiles ==
    { <<TargetName, "-", "0E1F2A3B", XctestSuffix>>,
      <<TargetName, "-", "6ba7b810", XctestSuffix>>,
      <<"old", XctestSuffix, ".bak">>,
      <<"101", ".profraw">> }

\* the directories made of them
OldDirs == UNION {[d -> {"old content"}] : d \in SUBSET OldFiles}

\* the orders in which listdir may report the files names
RECURSIVE Listings(_)
Listings(names) ==
    IF names = {} THEN {<<>>}
    ELSE UNION {{<<n>> \o l : l \in Listings(names \ {n})} : n \in names}

\* the call _launch_wda_app(bundle_id, session_identifier, xctest_configuration)
WDA_Call ==
    /\ app.pc = "idle"
    /\ app.calls < MaxAppCalls
    /\ \E sid \in SessionIds, cfg \in Configurations :
        app' = [app EXCEPT !.pc = "listdir", !.fn = "_launch_wda_app",
                           !.calls = @ + 1,
                           !.arg = [session_identifier |-> sid,
                                    xctest_configuration |-> cfg],
                           !.status = "running"]
    /\ UNCHANGED appRest

\* lines 862-863: fsync = self.app_sync(...); fsync.listdir("/tmp")
WDA_ListDir ==
    /\ app.fn = "_launch_wda_app" /\ app.pc = "listdir"
    /\ \E ok \in BOOLEAN :
        IF ok
        THEN \E l \in Listings(DOMAIN app.tmp) :
               app' = [app EXCEPT !.pc = "loop", !.listing = l]
        ELSE app' = [app EXCEPT !.pc = "idle", !.status = "raised",
                                !.exc = Exc("MuxError", "app_sync")]
    /\ UNCHANGED appRest

\* a loop that removes every file whose name mentions the ending
WDA_Remove_Mentions ==
    /\ app.fn = "_launch_wda_app" /\ app.pc = "loop"
    /\ IF app.listing = <<>>
       THEN app' = [app EXCEPT !.pc = "push"]
       ELSE LET fname == Head(app.listing) IN
            IF \E k \in DOMAIN fname : fname[k] = XctestSuffix
            THEN app' = [app EXCEPT !.listing = Tail(@),
                                    !.removed = @ \cup {fname},
                                    !.tmp = [f \in DOMAIN app.tmp \ {fname} |-> app.tmp[f]]]
            ELSE app' = [app EXCEPT !.listing = Tail(@)]
    /\ UNCHANGED appRest

\* lines 863-866: for fname in the listing: remove it when it ends with the ending
WDA_Remove ==
    /\ app.fn = "_launch_wda_app" /\ app.pc = "loop"
    /\ IF app.listing = <<>>
       THEN app' = [app EXCEPT !.pc = "push"]
       ELSE LET fname == Head(app.listing) IN
            IF EndsWith(fname, XctestSuffix)
            THEN app' = [app EXCEPT !.listing = Tail(@),
                                    !.removed = @ \cup {fname},
                                    !.tmp = [f \in DOMAIN app.tmp \ {fname} |-> app.tmp[f]]]
            ELSE app' = [app EXCEPT !.listing = Tail(@)]
    /\ UNCHANGED appRest

\* lines 860, 867: fsync.push_content(xctest_path, objc_encode(xctest_configuration))
WDA_Push ==
    /\ app.fn = "_launch_wda_app" /\ app.pc = "push"
    /\ LET path == XctestPath(TargetName, app.arg.session_identifier) IN
       app' = [app EXCEPT !.pc = "idle", !.status = "written",
                          !.value = <<"path", path>>,
                          !.tmp = [f \in DOMAIN app.tmp \cup {path} |->
                                      IF f = path THEN app.arg.xctest_configuration
                                      ELSE app.tmp[f]]]
    /\ UNCHANGED appRest

----------------------------------------------------------------------------
(* BaseDevice.app_stop(pid_or_name) *)

BundleIds == {"com.facebook.WebDriverAgentRunner.xctrunner", "com.apple.Preferences"}

\* the bundle ids of the processes ts.app_process_list reports, in its order
ProcessLists == UNION {[1..n -> BundleIds] : n \in 0..MaxProcesses}

\* process k of such a list; pids are distinct
Proc(ps, k) == [pid |-> 300 + k, bundle_id |-> ps[k]]

\* the arguments of app_stop: a pid (of a running process or not) or a bundle id
StopArgs ==
    {[int |-> TRUE, pid |-> 301, bundle_id |-> ""],
     [int |-> TRUE, pid |-> 777, bundle_id |-> ""]}
    \cup {[int |-> FALSE, pid |-> 0, bundle_id |-> b] : b \in BundleIds}

\* what app_stop returns: None or a pid
PyNone == <<"None">>
PyInt(n) == <<"int", n>>

\* the call app_stop(pid_or_name)
STOP_Call ==
    /\ app.pc = "idle"
    /\ app.calls < MaxAppCalls
    /\ \E a \in StopArgs :
        app' = [app EXCEPT !.pc = "connect", !.fn = "app_stop", !.calls = @ + 1,
                           !.arg = a, !.status = "running",
                           !.ts = "none", !.sent = <<>>, !.ps = <<>>, !.at = 0,
                           !.value = None, !.exc = Exc("", "")]
    /\ UNCHANGED appRest

\* leaving `with self.connect_instruments() as ts` (line 683) closes ts
StopExit(a, status, value, exc) ==
    [a EXCEPT !.pc = "idle", !.ts = "closed", !.status = status,
              !.value = value, !.exc = exc]

\* line 683: with self.connect_instruments() as ts
STOP_Connect ==
    /\ app.fn = "app_stop" /\ app.pc = "connect"
    /\ \E ok \in BOOLEAN :
        IF ok
        THEN app' = [app EXCEPT !.ts = "open",
                                !.pc = IF app.arg.int THEN "kill" ELSE "ps"]
        ELSE app' = [app EXCEPT !.pc = "idle", !.status = "raised",
                                !.exc = Exc("MuxError", "connect_instruments")]
    /\ UNCHANGED appRest

\* lines 684-686: ts.app_kill(pid_or_name); return pid_or_name
STOP_KillPid ==
    /\ app.fn = "app_stop" /\ app.pc = "kill"
    /\ \E ok \in BOOLEAN :
        IF ok
        THEN app' = StopExit([app EXCEPT !.sent = Append(@, <<"killPid:", app.arg.pid>>)],
                             "returned", PyInt(app.arg.pid), app.exc)
        ELSE app' = StopExit(app, "raised", None, Exc("SocketError", "killPid:"))
    /\ UNCHANGED appRest

\* lines 689-690: the installed apps and ps = ts.app_process_list(app_infos)
STOP_ProcessList ==
    /\ app.fn = "app_stop" /\ app.pc = "ps"
    /\ \E ok \in BOOLEAN :
        IF ok
        THEN app' = [app EXCEPT !.pc = "loop", !.ps = app.procs, !.at = 1,
                                !.sent = Append(@, <<"runningProcesses">>)]
        ELSE app' = StopExit(app, "raised", None, Exc("MuxError", "iter_installed"))
    /\ UNCHANGED appRest

\* a loop that kills every process of the bundle id
STOP_Loop_KillsAll ==
    /\ app.fn = "app_stop" /\ app.pc = "loop"
    /\ IF app.at > Len(app.ps)
       THEN app' = StopExit(app, "returned",
                            IF \E k \in DOMAIN app.ps : app.ps[k] = app.arg.bundle_id
                            THEN PyInt(300 + (CHOOSE k \in DOMAIN app.ps :
                                                 app.ps[k] = app.arg.bundle_id))
                            ELSE PyNone,
                            app.exc)
       ELSE LET p == Proc(app.ps, app.at) IN
            IF p.bundle_id = app.arg.bundle_id
            THEN app' = [app EXCEPT !.at = @ + 1,
                                    !.sent = Append(@, <<"killPid:", p.pid>>)]
            ELSE app' = [app EXCEPT !.at = @ + 1]
    /\ UNCHANGED appRest

\* lines 691-695: for p in ps: the first p of the bundle id is killed and its
\* pid returned; None when the loop ends
STOP_Loop ==
    /\ app.fn = "app_stop" /\ app.pc = "loop"
    /\ IF app.at > Len(app.ps)
       THEN app' = StopExit(app, "returned", PyNone, app.exc)
       ELSE LET p == Proc(app.ps, app.at) IN
            IF p.bundle_id = app.arg.bundle_id
            THEN \E ok \in BOOLEAN :
                 IF ok
                 THEN app' = StopExit([app EXCEPT !.sent = Append(@, <<"killPid:", p.pid>>)],
                                      "returned", PyInt(p.pid), app.exc)
                 ELSE app' = StopExit(app, "raised", None, Exc("SocketError", "killPid:"))
            ELSE app' = [app EXCEPT !.at = @ + 1]
    /\ UNCHANGED appRest

AppNext ==
    \/ WDA_Call \/ WDA_ListDir \/ WDA_Remove \/ WDA_Push
    \/ STOP_Call \/ STOP_Connect \/ STOP_KillPid \/ STOP_ProcessList \/ STOP_Loop

AppInit ==
    /\ InitHandle
    /\ muxStore = Some(OldRecord)
    /\ device \in [version : {<<13, 1>>}, devmode : {TRUE}]
    /\ XIdle
    /\ PemIdle("missing")
    /\ \E files \in OldDirs, procs \in ProcessLists : AppIdle(files, procs)

AppSpec == AppInit /\ [][AppNext]_vars

----------------------------------------------------------------------------
(* BaseDevice.info and BaseDevice.devid, read on a fresh handle *)

\* the variables a read of info does not write
infoRest == <<stack, rv, pair_record, muxStore, conns, hostCtr, device, xvars, pem, app>>

\* the device lists the daemon may answer with when info reads the list
InfoListsNow == IF info = None THEN InfoLists ELSE {<<>>}

\* lines 99-119: a read of self.info; the log keeps the list the daemon gave
INFO_Read ==
    /\ result.calls < MaxInfoReads
    /\ \E devs \in InfoListsNow :
        LET r == InfoResolve(devs) IN
        /\ info' = r.info
        /\ udid' = r.udid
        /\ result' = [Idle EXCEPT !.fn = "info", !.calls = result.calls + 1,
                                  !.status = IF r.ok THEN "returned" ELSE "raised",
                                  !.value = IF r.ok THEN r.info ELSE None,
                                  !.exc = IF r.ok THEN Exc("", "") ELSE Exc("MuxError", r.msg),
                                  !.log = IF info = None THEN <<devs>> ELSE <<>>]
    /\ UNCHANGED infoRest

\* lines 128-130: devid returns self.info.device_id
INFO_Devid ==
    /\ result.calls < MaxInfoReads
    /\ \E devs \in InfoListsNow :
        LET r == InfoResolve(devs) IN
        /\ info' = r.info
        /\ udid' = r.udid
        /\ result' = [Idle EXCEPT !.fn = "devid", !.calls = result.calls + 1,
                                  !.status = IF r.ok THEN "returned" ELSE "raised",
                                  !.value = IF r.ok THEN Some(r.info[1].device_id) ELSE None,
                                  !.exc = IF r.ok THEN Exc("", "") ELSE Exc("MuxError", r.msg),
                                  !.log = IF info = None THEN <<devs>> ELSE <<>>]
    /\ UNCHANGED infoRest

InfoNext == INFO_Read \/ INFO_Devid

\* lines 80-81: the handle keeps the UDID it was created with, and no info
InfoInit ==
    /\ stack = <<>>
    /\ rv = None
    /\ result = Idle
    /\ pair_record = None
    /\ info = None
    /\ udid \in HandleUDIDs
    /\ conns = <<>>
    /\ hostCtr = 0
    /\ muxStore = Some(OldRecord)
    /\ device \in [version : {<<13, 1>>}, devmode : {TRUE}]
    /\ XIdle
    /\ PemIdle("missing")
    /\ AppIdle(NoFiles, <<>>)

InfoSpec == InfoInit /\ [][InfoNext]_vars

----------------------------------------------------------------------------
(* Reading the logs *)

Idx(L, tag) == {i \in DOMAIN L : L[i][1] = tag}
Count(L, tag) == Cardinality(Idx(L, tag))
SetMin(S) == CHOOSE x \in S : \A y \in S : x <= y
SetMax(S) == CHOOSE x \in S : \A y \in S : x >= y

Done(fn) == result.fn = fn /\ result.status \in {"returned", "raised"}

\* the logs of the create_session calls in progress or just finished
CsLogs ==
    {stack[i].log : i \in {j \in DOMAIN stack : stack[j].fn = "create_session"}}
    \cup (IF Done("create_session") THEN {result.log} ELSE {})

FirstSS(L) == L[SetMin(Idx(L, "StartSession"))]
LastSS(L) == L[SetMax(Idx(L, "StartSession"))]

----------------------------------------------------------------------------
(* C1..C10 *)

\* C1: after a first StartSession reply InvalidHostID, create_session clears the
\* cached record, sends DeletePairRecord, runs handshake and only then sends
\* StartSession once more, on the same connection, with the HostID and SystemBUID
\* of the record now cached; it never sends more than two StartSession requests,
\* and any other Error raises MuxError with that Error and no retry.
C1_RetryOnceOnInvalidHostID ==
    /\ \A L \in CsLogs :
        LET ss == Idx(L, "StartSession") IN
        /\ Cardinality(ss) <= 2
        /\ Cardinality(ss) = 2 =>
            LET a == SetMin(ss)
                b == SetMax(ss)
            IN  /\ L[a][4].Error = InvalidHostID
                /\ Count(L, "clear") = 1
                /\ Count(L, "DeletePairRecord") = 1
                /\ \E c, d, h \in (a + 1)..(b - 1) :
                      /\ c < d /\ d < h
                      /\ L[c][1] = "clear"
                      /\ L[d][1] = "DeletePairRecord"
                      /\ L[h][1] = "handshake"
                /\ L[b][2] # L[a][2]
        /\ (ss # {} /\ FirstSS(L)[4].Error # InvalidHostID) =>
            /\ Cardinality(ss) = 1
            /\ Count(L, "clear") = 0
            /\ Count(L, "DeletePairRecord") = 0
    /\ \A i \in DOMAIN stack :
        (/\ stack[i].fn = "create_session"
         /\ stack[i].pc = "session"
         /\ Count(stack[i].log, "StartSession") = 2) =>
            /\ pair_record # None
            /\ LastSS(stack[i].log)[2] = pair_record[1].HostID
            /\ LastSS(stack[i].log)[3] = pair_record[1].SystemBUID
            /\ Count([k \in DOMAIN conns[stack[i].conn].reqs |->
                        <<conns[stack[i].conn].reqs[k]>>], "StartSession") = 2
    /\ Done("create_session") /\ Idx(result.log, "StartSession") # {} =>
        LET e == FirstSS(result.log)[4].Error IN
        /\ e \notin {InvalidHostID, NoError} =>
             result.status = "raised" /\ result.exc = Exc("MuxError", e)
        /\ (e = InvalidHostID /\ result.status = "returned") =>
             Count(result.log, "StartSession") = 2

\* C1 witness: a create_session that sent its second StartSession
C1_Witness ==
    /\ At("create_session", "session")
    /\ Count(Top.log, "StartSession") = 2

C3_HandshakeSurfacesOtherCodes ==
    Done("handshake") =>
        LET L == result.log
            r == L[SetMin(Idx(L, "ReadPairRecord"))][2]
        IN  /\ Count(L, "ReadPairRecord") = 1
            /\ r = "record" =>
                 /\ Count(L, "pair") = 0
                 /\ result.status = "returned"
                 /\ pair_record = muxStore
            /\ r = BadDevice =>
                 /\ Count(L, "pair") = 1
                 /\ result.status = "returned" =>
                      /\ Count(L, "paired") = 1
                      /\ pair_record # None
                      /\ pair_record[1].HostID = L[SetMin(Idx(L, "paired"))][2]
            /\ r \notin {"record", BadDevice} =>
                 /\ result.status = "raised"
                 /\ result.exc.kind = "MuxReplyError"

\* the StartService requests in the log of a start_service frame
OwnStartService(f) == Idx(f.log, "StartService")

SsFrames == {stack[i] : i \in {j \in DOMAIN stack : stack[j].fn = "start_service"}}

\* C4: one call to start_service(name) sends at most two StartService requests
\* for name and runs mount_developer_image at most once; the second request
\* comes only after the first failed and mount_developer_image returned.
C4_OneMountOneRetry ==
    \A f \in SsFrames :
        LET own == OwnStartService(f) IN
        /\ Cardinality(own) <= 2
        /\ Count(f.log, "mount") <= 1
        /\ Cardinality(own) = 2 =>
             /\ f.log[SetMin(own)][3] # NoError
             /\ \E m \in Idx(f.log, "mounted") : SetMin(own) < m /\ m < SetMax(own)

\* C5: a StartService failure whose error is not InvalidService reaches the
\* caller of start_service without a mount of the developer image and without
\* a second StartService request.
C5_OnlyInvalidServiceMounts ==
    \A f \in SsFrames :
        LET own == OwnStartService(f) IN
        (own # {} /\ f.log[SetMin(own)][3] \notin {NoError, InvalidService}) =>
            /\ Count(f.log, "mount") = 0
            /\ Cardinality(own) = 1

\* the logs of the connect_instruments calls in progress or just finished
CiLogs ==
    {stack[i].log : i \in {j \in DOMAIN stack : stack[j].fn = "connect_instruments"}}
    \cup (IF Done("connect_instruments") THEN {result.log} ELSE {})

\* the events of log L with the given tag, in order
RECURSIVE Only(_, _)
Only(L, tag) ==
    IF L = <<>> THEN <<>>
    ELSE IF L[1][1] = tag THEN <<L[1]>> \o Only(Tail(L), tag)
    ELSE Only(Tail(L), tag)

\* C6 as stated: connect_instruments retries after a SocketError up to three
\* times, so that the SocketError reaches the caller after the third retry
\* has failed.
C6_ThreeRetries ==
    (/\ Done("connect_instruments")
     /\ result.status = "raised"
     /\ result.exc.kind = "SocketError") =>
        Count(result.log, "sleep") = 3

\* C6 amended: connect_instruments makes at most three attempts in all, the
\* first and up to two retries, each retry after a SocketError and a wait of
\* 5 s, then 8 s; the third SocketError reaches the caller; an error of any
\* other kind reaches the caller from the attempt it occurs in.
C6_ThreeAttempts ==
    /\ \A L \in CiLogs :
        /\ Count(L, "attempt") <= 3
        /\ Count(L, "sleep") <= Count(L, "failed")
        /\ Count(L, "sleep") \in {Count(L, "attempt") - 1, Count(L, "attempt")}
        /\ \A k \in Idx(L, "failed") : L[k][2] = "SocketError"
        /\ Only(L, "sleep") \in {<<>>, <<<<"sleep", 5>>>>,
                                  <<<<"sleep", 5>>, <<"sleep", 8>>>>}
    /\ Done("connect_instruments") =>
        LET L == result.log IN
        IF result.status = "raised" /\ result.exc.kind = "SocketError"
        THEN /\ Count(L, "attempt") = 3
             /\ Count(L, "failed") = 3
             /\ Count(L, "sleep") = 2
        ELSE /\ Count(L, "failed") = Count(L, "attempt") - 1
             /\ Count(L, "sleep") = Count(L, "attempt") - 1

\* C6 witness: three attempts broke the pipe and the SocketError reached the caller
C6_Witness ==
    /\ Done("connect_instruments")
    /\ result.status = "raised"
    /\ result.exc.kind = "SocketError"
    /\ Count(result.log, "attempt") = 3

\* the pair() frames in progress
PairFrames == {stack[i] : i \in {j \in DOMAIN stack : stack[j].fn = "pair"}}

\* the top-level call pair() failed for one of the two reasons
PairFailed ==
    /\ Done("pair")
    /\ result.status = "raised"
    /\ result.exc.kind = "MuxError"
    /\ result.exc.msg \in PairErrors \cup {"Unable to retrieve DevicePublicKey"}

\* the logs kept by the calls in progress and by the last top-level call
AllLogs == {stack[i].log : i \in DOMAIN stack} \cup {result.log}

\* C11: when pair() fails on an empty DevicePublicKey or on an Error in the
\* Pair reply, the error reaches the caller, no SavePairRecord is sent, and
\* the cached pair record is left as it was; with an empty DevicePublicKey no
\* Pair request is sent either.
C11_FailedPairLeavesNoTrace ==
    /\ [](\A L \in AllLogs : \A k \in Idx(L, "Pair") :
            L[k][3] # NoError =>
                \A n \in Idx(L, "SavePairRecord") : L[n][2].HostID # L[k][2])
    /\ [](\A f \in PairFrames :
            (f.pc = "reply" /\ f.reply.Error # NoError) =>
                Count(f.log, "SavePairRecord") = 0)
    /\ [](Done("pair") =>
            LET L == result.log IN
            /\ (Count(L, "Pair") = 1 /\ L[SetMin(Idx(L, "Pair"))][3] # NoError) =>
                 /\ result.status = "raised"
                 /\ result.exc = Exc("MuxError", L[SetMin(Idx(L, "Pair"))][3])
                 /\ Count(L, "SavePairRecord") = 0
            /\ (result.status = "raised"
                  /\ result.exc.msg = "Unable to retrieve DevicePublicKey") =>
                 /\ result.exc.kind = "MuxError"
                 /\ Count(L, "Pair") = 0
                 /\ Count(L, "SavePairRecord") = 0)
    /\ [][PairFrames # {} => pair_record' = pair_record]_vars

\* C11 witness: the Pair reply carried PasswordProtected and pair() raised it
C11_Witness ==
    /\ PairFailed
    /\ result.exc.msg = PasswordProtected
    /\ Count(result.log, "Pair") = 1

UssSessions == {c \in DOMAIN conns : conns[c].session = "_unsafe_start_service"}

\* the session that _unsafe_start_service holds in its `with` block is open only
\* between create_session's return and the end of the block: it is gone when
\* the tunnel to the service port is opened and when the reply's Error is raised
ClosedBeforeTunnel ==
    \A c \in UssSessions \ {0} :
        /\ Running
        /\ Top.fn = "_unsafe_start_service"
        /\ \/ Top.pc = "sess" /\ rv # None /\ rv[1].conn = c
           \/ Top.pc = "reply" /\ Top.conn = c

\* C13: in every _unsafe_start_service call the lockdown session it opened is
\* closed before the tunnel to the service port is opened, also when the
\* StartService reply carries an Error, and no lockdown session outlives the
\* call that created it.
C13_SessionEndsWithStartService ==
    /\ ClosedBeforeTunnel
    /\ 0 \notin UssSessions

\* _unsafe_start_service is about to return the connection it got from
\* create_inner_connection
UssReturning == At("_unsafe_start_service", "tunnel") /\ rv # None

\* C14: the connection returned by _unsafe_start_service is a newly opened
\* tunnel to the Port of the StartService reply; it went through a TLS
\* handshake iff the reply has EnableServiceSSL true (absent counts as false),
\* and TLS was removed again iff the service is one of the four DTX services.
C14_TunnelToReplyPort ==
    UssReturning =>
        LET c == conns[rv[1]]
            reply == Top.reply
        IN  /\ rv[1] \in DOMAIN conns \ {0}
            /\ c.port = reply.Port
            /\ c.port \in ServicePorts
            /\ c.owner = "_unsafe_start_service"
            /\ c.reqs = <<>> /\ c.session = ""
            /\ (c.tls # "plain") <=> (reply.EnableServiceSSL = Some(TRUE))
            /\ (c.tls = "unwrapped") <=>
                  (reply.EnableServiceSSL = Some(TRUE) /\ Top.arg \in DtxServices)
            /\ (c.tls = "tls") <=>
                  (reply.EnableServiceSSL = Some(TRUE) /\ Top.arg \notin DtxServices)

\* C14 witness: a DTX service started with EnableServiceSSL true comes back
\* with the TLS layer removed after the handshake
C14_Witness ==
    /\ UssReturning
    /\ Top.arg \in DtxServices
    /\ Top.reply.EnableServiceSSL = Some(TRUE)
    /\ conns[rv[1]].tls = "unwrapped"

\* the threads inside the `with self._lock` block of ssl_pemfile_path
PemInside == {t \in Threads : pem.th[t].pc \in {"host_id", "exists", "open", "read", "write"}}

\* C15: ssl_pemfile_path rewrites the PEM file iff the file is missing or at
\* least three minutes old and otherwise returns the path with the file
\* untouched; check and write happen under the device mutex, so two threads
\* never write the file at once; the mutex is released on every exit, also
\* when reading the pair record fails.
C15_PemFileUnderLock ==
    /\ [](Cardinality(PemInside) <= 1 /\ Cardinality(pem.file.open) <= 1)
    /\ [](\A t \in Threads : (t \in PemInside <=> pem.lock = t)
                             /\ (t \in pem.file.open => pem.lock = t))
    /\ [](PemInside = {} => pem.lock = 0)
    /\ [](\A t \in Threads :
            pem.th[t].status = "returned" =>
                (pem.th[t].wrote <=> pem.th[t].found \in {"missing", "old"}))
    /\ [][\A t \in Threads :
            (PemAt(t, "exists") /\ pem'.th[t].pc # "exists") =>
                IF pem.file.state = "fresh"
                THEN pem'.file = pem.file /\ pem'.th[t].status = "returned"
                ELSE pem'.th[t].pc = "open"]_vars
    /\ [][(pem'.file.content # pem.file.content \/ pem'.file.open # pem.file.open) =>
            \E t \in Threads : pem.lock = t /\ pem.th[t].found \in {"missing", "old"}]_vars

\* C15 witness: one thread rewrote the file, another failed while reading the
\* pair record for the rewrite, and the mutex is free
C15_Witness ==
    /\ pem.lock = 0
    /\ \E t, u \in Threads :
        /\ pem.th[t].status = "returned" /\ pem.th[t].wrote
        /\ pem.th[u].status = "raised" /\ pem.th[u].wrote

\* C16: after the quit event has been set by the FINISHED event of either
\* connection, both testmanagerd connections x1 and x2 are torn down before
\* xcuitest returns or raises.
C16_BothConnectionsTornDown ==
    (xpc = "done" /\ quit_event /\ xout.at = "verdict") =>
        (xconn["x1"].state = "closed" /\ xconn["x2"].state = "closed")

\* the log arguments whose text contains "Received test runner ready reply"
ReadyLogs ==
    { << <<"log: ", "Received test runner", " ready reply">> >>,
      << <<"Received test runner">>, <<" ready reply">> >> }

\* m is one of the two triggers of the test plan
IsTrigger(m) ==
    \/ m.sel = TestBundleReady
    \/ m.sel = LogDebugMessage /\ m.arguments \in ReadyLogs

\* the callbacks that have run and ended with outcome
RanWith(outcome) == {k \in DOMAIN cb_done : cb_done[k].outcome = outcome}

\* positions in what connection c sent of the messages with selector sel
SentOn(c, sel) == {j \in DOMAIN xconn[c].sent : xconn[c].sent[j][1] = sel}

\* C17: _IDE_startExecutingTestPlanWithProtocolVersion: is sent on x2 only in
\* response to a trigger, a test-bundle-ready message or a log message whose
\* text contains "Received test runner ready reply"; a log message without
\* that text never causes it, and it is never sent before a trigger arrived.
C17_StartOnlyOnTrigger ==
    /\ SentOn("x1", StartExecuting) = {}
    /\ Cardinality(SentOn("x2", StartExecuting)) = Cardinality(RanWith("started"))
    /\ \A k \in RanWith("started") : IsTrigger(cb_done[k].m)
    /\ \A k \in DOMAIN cb_done :
          (cb_done[k].m.sel = LogDebugMessage /\ ~IsTrigger(cb_done[k].m)) =>
              cb_done[k].outcome = "logged"
    /\ \A i \in DOMAIN workers :
          workers[i].pc \in {"_start_executing", "set"} => IsTrigger(workers[i].m)
    /\ \A j \in SentOn("x2", StartExecuting) :
          xconn["x2"].sent[j] = <<StartExecuting, XCODE_VERSION>>

\* C17 witness: the test plan was started by a log message that carries the
\* text split over two strings, after a log message without the text
C17_Witness ==
    /\ SentOn("x2", StartExecuting) # {}
    /\ \E k \in RanWith("started") :
          cb_done[k].m.sel = LogDebugMessage /\ Len(cb_done[k].m.arguments) = 2
    /\ RanWith("logged") # {}

\* the _XCT_testRunnerReadyWithCapabilities: messages whose callback has sent
\* its answer
Answered == {k \in RanWith("sent") : cb_done[k].m.sel = TestRunnerReady}

InitiateControlSession == "_IDE_initiateControlSessionWithProtocolVersion:"

\* the test connection x2 has been opened
X2Opened == xconn["x2"].state # "none"

\* C19 as stated: in every run, on every iOS major version, x1 calls
\* _IDE_initiateControlSessionWithProtocolVersion: with version 29 on its
\* daemon channel before x2 is opened.
C19_ControlSessionOnEveryVersion ==
    X2Opened =>
        /\ Len(xconn["x1"].sent) >= 2
        /\ xconn["x1"].sent[1] = <<"make_channel", DaemonChannel>>
        /\ xconn["x1"].sent[2] = <<InitiateControlSession, 29>>

\* C19, amended: on iOS 11 and later x1 calls
\* _IDE_initiateControlSessionWithProtocolVersion: with version 29 on its
\* daemon channel, once, before x2 is opened; on iOS 10 and earlier x1 never
\* makes that call.
C19_ControlSessionFromIOS11 ==
    /\ X2Opened =>
          /\ Len(xconn["x1"].sent) >= 1
          /\ xconn["x1"].sent[1] = <<"make_channel", DaemonChannel>>
          /\ major_version >= 11 =>
                (Len(xconn["x1"].sent) >= 2
                   /\ xconn["x1"].sent[2] = <<InitiateControlSession, 29>>)
    /\ Cardinality(SentOn("x1", InitiateControlSession)) <= 1
    /\ major_version <= 10 => SentOn("x1", InitiateControlSession) = {}
    /\ SentOn("x2", InitiateControlSession) = {}

\* C19 witness: on iOS 11 x2 is open and x1 has started the control session
C19_Witness ==
    /\ X2Opened
    /\ major_version = 11
    /\ SentOn("x1", InitiateControlSession) = {2}

\* the three selectors that authorize a test session
AuthorizationSelectors ==
    {"_IDE_authorizeTestSessionWithProcessID:",
     "_IDE_initiateControlSessionForTestProcessID:",
     "_IDE_initiateControlSessionForTestProcessID:protocolVersion:"}

\* positions of the authorization calls in what x1 sent
AuthorizationsSent ==
    {j \in DOMAIN xconn["x1"].sent : xconn["x1"].sent[j][1] \in AuthorizationSelectors}

\* xcuitest got past the authorization call
Authorized ==
    \/ xpc \in {"wait", "report", "verdict"}
    \/ xpc = "done" /\ xout.at = "verdict"

\* C20: after the runner is launched xcuitest sends exactly one authorization
\* call on x1, carrying the pid returned by the launch; its selector is
\* _IDE_authorizeTestSessionWithProcessID: on iOS >= 12,
\* _IDE_initiateControlSessionForTestProcessID: on iOS <= 9 and
\* _IDE_initiateControlSessionForTestProcessID:protocolVersion: (with 29) on
\* iOS 10 and 11.
C20_OneAuthorizationByVersion ==
    /\ Cardinality(AuthorizationsSent) <= 1
    /\ xloc.pid = 0 => AuthorizationsSent = {}
    /\ Authorized => Cardinality(AuthorizationsSent) = 1
    /\ \A j \in DOMAIN xconn["x2"].sent :
          xconn["x2"].sent[j][1] \notin AuthorizationSelectors
    /\ \A j \in AuthorizationsSent :
          LET call == xconn["x1"].sent[j]
              v == device.version[1]
          IN  /\ xloc.pid \in Pids
              /\ call[2] = xloc.pid
              /\ v >= 12 => call = <<"_IDE_authorizeTestSessionWithProcessID:", xloc.pid>>
              /\ v <= 9 => call = <<"_IDE_initiateControlSessionForTestProcessID:", xloc.pid>>
              /\ v \in {10, 11} =>
                    call = <<"_IDE_initiateControlSessionForTestProcessID:protocolVersion:",
                             xloc.pid, 29>>

\* C20 witness: on iOS 10 the runner was launched and xcuitest, authorized
\* with the protocol version, waits for the end of the run
C20_Witness ==
    /\ xpc = "wait"
    /\ device.version[1] = 10
    /\ Cardinality(AuthorizationsSent) = 1

\* the configuration files in the runner's /tmp
ConfigFiles == {f \in DOMAIN app.tmp : f[Len(f)] = ".xctestconfiguration"}

\* the name of the configuration file of session sid
ExpectedPath(sid) ==
    IF sid = "6ba7b810"
    THEN <<"WebDriverAgentRunner", "-", "6BA7B810", ".xctestconfiguration">>
    ELSE <<"WebDriverAgentRunner", "-", "9DAD11D1", ".xctestconfiguration">>

\* C21: when _launch_wda_app has written the configuration, the runner's /tmp
\* holds exactly one file whose name ends in .xctestconfiguration, the file
\* /tmp/<TargetName>-<UPPER(session UUID)>.xctestconfiguration of this
\* session; every prior such file was removed before the write, and files
\* with other names are neither removed nor modified.
C21_OneConfigurationFile ==
    /\ []((app.fn = "_launch_wda_app" /\ app.status = "written") =>
            /\ ConfigFiles = {ExpectedPath(app.arg.session_identifier)}
            /\ app.tmp[ExpectedPath(app.arg.session_identifier)]
                 = app.arg.xctest_configuration)
    /\ []((app.fn = "_launch_wda_app" /\ app.pc = "push") => ConfigFiles = {})
    /\ [][\A f \in DOMAIN app.tmp :
            f[Len(f)] # ".xctestconfiguration" =>
                (f \in DOMAIN app'.tmp /\ app'.tmp[f] = app.tmp[f])]_vars

\* C21 witness: two earlier configurations were removed, the new one written,
\* and the two other files are still there
C21_Witness ==
    /\ app.fn = "_launch_wda_app" /\ app.status = "written"
    /\ Cardinality(app.removed) = 2
    /\ Cardinality(DOMAIN app.tmp) = 3

\* the device answered the launch with something that is not a pid
LaunchRefused == xloc.launch_reply # None /\ xloc.launch_reply[1][1] # "int"

\* after a refused launch _launch_wda_app raises, sends no startObservingPid:
\* and registers no callback, and xcuitest makes no authorization call
LaunchFailureStops ==
    LaunchRefused =>
        /\ xpc = "done" /\ xout.status = "raised" /\ xout.at = "launch_process"
        /\ \A j \in DOMAIN xloc.ins_sent : xloc.ins_sent[j][1] # "startObservingPid:"
        /\ xloc.ins_callbacks = {}
        /\ AuthorizationsSent = {}

\* C22: when the reply to the launch is not an integer pid, _launch_wda_app
\* raises a launch error that carries the device's message, sends no
\* startObservingPid:, registers no callbacks, and xcuitest sends no
\* authorization call on x1.
C22_LaunchErrorCarriesMessage ==
    /\ LaunchFailureStops
    /\ LaunchRefused => xout.exc.msg = xloc.launch_reply[1][2]

\* xcuitest ended after every setup call had succeeded
EndedAfterSetup == xpc = "done" /\ xout.at \in {"wait", "report", "verdict"}

FinishedFired == xconn["x1"].fired \/ xconn["x2"].fired

IsPrefix(p, q) == Len(p) <= Len(q) /\ \A k \in DOMAIN p : p[k] = q[k]

\* C7: once every setup call has succeeded, xcuitest neither returns nor
\* raises before the FINISHED event of x1 or of x2 has fired; and when either
\* FINISHED event has fired, xcuitest in its wait loop eventually leaves the
\* loop and terminates.
C7_BlocksUntilFinished ==
    /\ [](EndedAfterSetup => FinishedFired)
    /\ [](xpc \in {"report", "verdict"} => FinishedFired)
    /\ ((xpc = "wait" /\ FinishedFired) ~> (xpc = "done"))

\* C7 witness: xcuitest has left its wait loop after a FINISHED event and ended
C7_Witness ==
    /\ EndedAfterSetup
    /\ FinishedFired
    /\ quit_event

C9_SessionIdAndTls ==
    (Done("create_session") /\ result.status = "returned") =>
        LET reply == LastSS(result.log)[4]
            sess == result.value[1]
        IN  /\ reply.Error = NoError
            /\ sess.id = reply.SessionID
            /\ sess.conn \in DOMAIN conns
            /\ (conns[sess.conn].tls = "tls") <=> reply.EnableSessionSSL

\* C9 witness: a returned session "abc" on an upgraded socket
C9_Witness ==
    /\ Done("create_session")
    /\ result.status = "returned"
    /\ result.value[1].id = "abc"
    /\ conns[result.value[1].conn].tls = "tls"

QueryTypeFirst(c) ==
    /\ Len(c.reqs) >= 1 => c.reqs[1] = "QueryType"
    /\ Len(c.reqs) >= 2 => c.typeOk

\* C10 as stated: on every connection to the lockdown port the first request is
\* QueryType and nothing else is sent unless its reply has the lockdown Type.
C10_QueryTypeOnEveryConnection ==
    \A c \in DOMAIN conns :
        conns[c].port = LOCKDOWN_PORT => QueryTypeFirst(conns[c])

\* C10 amended: that holds on the connections create_session opens; the
\* connections of get_value(no_session=True) and of pair() carry their single
\* request, GetValue or Pair, with no QueryType before it.
C10_QueryTypeInCreateSession ==
    \A c \in DOMAIN conns :
        conns[c].port = LOCKDOWN_PORT =>
            CASE conns[c].owner = "create_session" -> QueryTypeFirst(conns[c])
              [] conns[c].owner = "get_value" -> conns[c].reqs \in {<<>>, <<"GetValue">>}
              [] conns[c].owner = "pair" -> conns[c].reqs \in {<<>>, <<"Pair">>}
              [] OTHER -> FALSE

\* C10 witness: a create_session connection carrying requests after QueryType
C10_Witness ==
    \E c \in DOMAIN conns :
        /\ conns[c].owner = "create_session"
        /\ Len(conns[c].reqs) >= 3
        /\ conns[c].reqs[1] = "QueryType"

\* C23: a read of info on a handle without a UDID returns iff the daemon lists
\* exactly one device, and then the handle has that device's UDID; when it
\* raises, the UDID and the cached info stay unset; on a handle with a UDID the
\* read raises when no listed device has that UDID; whenever a read returns,
\* the cached info's UDID is the handle's UDID
InfoRead == result'.calls = result.calls + 1 /\ result'.fn \in {"info", "devid"}
Listed == result'.log[1]
C23_InfoResolvesOneDevice ==
    [][InfoRead =>
        /\ (info = None /\ udid = None) =>
              /\ (result'.status = "returned") <=> (Len(Listed) = 1)
              /\ result'.status = "returned" => udid' = Some(Listed[1].udid)
              /\ result'.status = "raised" => (udid' = None /\ info' = None)
        /\ (info = None /\ udid # None
               /\ ~ \E k \in DOMAIN Listed : Listed[k].udid = udid[1]) =>
              result'.status = "raised"
        /\ result'.status = "returned" =>
              (info' # None /\ udid' # None /\ info'[1].udid = udid'[1])
        /\ result'.status \in {"returned", "raised"}]_vars

\* a handle created without a UDID has adopted the UDID of the one listed device
C23_Witness ==
    /\ result.fn \in {"info", "devid"}
    /\ result.status = "returned"
    /\ result.log # <<>> /\ Len(result.log[1]) = 1
    /\ udid = Some("U2")
    /\ info = Some(Dev("U2", 2))

\* C24: the HostID and SystemBUID of a held pair record change only when the
\* whole record is dropped, and the record is dropped only by the re-pair path
\* of create_session (lines 317-319) or by an assignment to pair_record
HeldRecordChanges == pair_record # None /\ pair_record' # pair_record
RepairStep == At("create_session", "repair")
AssignmentStep == ~Running /\ result'.fn = "pair_record"
C24_RecordDroppedOnlyByRepairOrAssignment ==
    [][HeldRecordChanges => (pair_record' = None /\ (RepairStep \/ AssignmentStep))]_vars

\* C24 amended: a held record is also replaced, whole, by a call of handshake()
\* (line 244 assigns what the daemon holds, line 247 what pair() returns);
\* no step changes HostID or SystemBUID of a record and keeps its other fields
HandshakeStep == Running /\ Top.fn = "handshake"
C24_RecordReplacedWhole ==
    [][HeldRecordChanges =>
          \/ pair_record' = None /\ (RepairStep \/ AssignmentStep)
          \/ /\ HandshakeStep
             /\ pair_record' # None
             /\ \/ Top.pc = "start" /\ pair_record' = muxStore
                \/ Top.pc = "paired" /\ pair_record' = rv]_vars

\* a held record has been replaced by handshake() with one of another HostID
C24_Witness ==
    /\ result.fn = "handshake" /\ result.status = "returned"
    /\ pair_record # None /\ pair_record[1].HostID # 0
    /\ \E k \in DOMAIN result.log : result.log[k] = <<"ReadPairRecord", "record">>
    /\ muxStore = pair_record

\* C25: app_stop with a bundle id kills at most one process, the first one of
\* the process list whose bundle_id is that id, and returns its pid; with no
\* such process it kills nothing and returns None; with a pid it sends the
\* kill for that pid and returns it; the instruments connection is closed
\* once app_stop has returned or raised
IsKill(msg) == msg[1] = "killPid:"
Kills == SelectSeq(app.sent, IsKill)
Matches == {k \in DOMAIN app.procs : app.procs[k] = app.arg.bundle_id}
FirstMatch == CHOOSE k \in Matches : \A j \in Matches : k <= j
C25_StopKillsFirstMatch ==
    app.fn = "app_stop" =>
        /\ Len(Kills) <= 1
        /\ (app.pc = "idle" /\ app.status = "raised" /\ app.exc.msg # "connect_instruments")
              => app.ts = "closed"
        /\ app.status = "returned" =>
              /\ app.ts = "closed"
              /\ IF app.arg.int
                 THEN /\ Kills = << <<"killPid:", app.arg.pid>> >>
                      /\ app.value = PyInt(app.arg.pid)
                 ELSE IF Matches = {}
                 THEN Kills = <<>> /\ app.value = PyNone
                 ELSE /\ Kills = << <<"killPid:", Proc(app.procs, FirstMatch).pid>> >>
                      /\ app.value = PyInt(Proc(app.procs, FirstMatch).pid)

\* two processes of the bundle id were running; the first was killed
C25_Witness ==
    /\ app.fn = "app_stop" /\ app.status = "returned"
    /\ ~app.arg.int
    /\ Cardinality(Matches) = 2
    /\ app.value = PyInt(301)
    /\ Len(Kills) = 1

\* C26: when the call ends on a StartSession reply that carries an Error, it
\* ends with a lockdown error (MuxError) whose text is that Error string, and
\* create_session never returns a Session after such a reply
LastEvent == result.log[Len(result.log)]
EndsOnStartSessionError ==
    /\ result.status \in {"returned", "raised"}
    /\ result.log # <<>>
    /\ LastEvent[1] = "StartSession"
    /\ LastEvent[4].Error # NoError
C26_StartSessionErrorSurfaced ==
    EndsOnStartSessionError =>
        /\ result.status = "raised"
        /\ result.exc = Exc("MuxError", LastEvent[4].Error)

\* the part of C26 that holds: no Session is returned after a reply with an Error
C26_NoSessionFromErrorReply ==
    EndsOnStartSessionError => result.status = "raised"

\* C27: mount_developer_image is never entered while a mount_developer_image
\* is in progress: the stack holds at most one of its frames
MountFrames == {k \in DOMAIN stack : stack[k].fn = "mount_developer_image"}
C27_MountNotReentered == Cardinality(MountFrames) <= 1

\* C28: when x2 has received, before its FINISHED fired, a testSuite finish
\* with failure_count > 0 for which the callback was registered, xcuitest
\* ends its wait by raising the test failure
IsFailure(m) == m.sel = TestSuiteDidFinish /\ m.shape = "pair" /\ m.failure_count > 0
FailureReceived ==
    \/ \E i \in DOMAIN workers : IsFailure(workers[i].m)
    \/ \E i \in DOMAIN cb_done : IsFailure(cb_done[i].m)
C28_FailureBeforeFinishedRaises ==
    (xpc = "done" /\ xout.at = "verdict" /\ xconn["x2"].fired /\ FailureReceived)
        => xout.status = "raised"

\* C29: _IDE_startExecutingTestPlanWithProtocolVersion: is sent on x2 at most
\* once in a run of xcuitest
C29_StartSentAtMostOnce == Cardinality(SentOn("x2", StartExecuting)) <= 1

\* C30: in a run of xcuitest each step has the earlier ones behind it:
\* initiateSession on x2, the configuration file, the launch of the runner,
\* startObservingPid: with the pid the launch returned, the authorization on
\* x1 with that pid, the wait for FINISHED. The file is written and the runner
\* launched only after a session result without NSError, the wait is entered
\* only after an authorization result without NSError; a result with NSError
\* raises at its step and no later step is done
SessionInitiated == SentOn("x2", InitiateSession) # {}
ConfigurationWritten == xloc.container # None
RunnerLaunched == \E j \in DOMAIN xloc.ins_sent : xloc.ins_sent[j][1] = LaunchSuspended
Observing == {j \in DOMAIN xloc.ins_sent : xloc.ins_sent[j][1] = "startObservingPid:"}
Waited == xpc \in {"wait", "report", "verdict"} \/ xout.at = "verdict"
C30_StepsInOrder ==
    /\ ConfigurationWritten => (SessionInitiated /\ xloc.session_result = Some("ok"))
    /\ RunnerLaunched => (ConfigurationWritten /\ xloc.launch_reply # None)
    /\ Observing # {} =>
          /\ RunnerLaunched
          /\ IsInt(xloc.launch_reply[1])
          /\ \A j \in Observing : xloc.ins_sent[j][2] = xloc.launch_reply[1][2]
    /\ AuthorizationsSent # {} =>
          /\ Observing # {}
          /\ \A j \in AuthorizationsSent :
                xconn["x1"].sent[j][2] = xloc.launch_reply[1][2]
    /\ Waited => (AuthorizationsSent # {} /\ xloc.auth_result = Some("ok"))
    /\ xloc.session_result = Some("NSError") =>
          /\ xout.status = "raised" /\ xout.at = "session"
          /\ xout.exc.kind = "RuntimeError"
          /\ ~ConfigurationWritten /\ ~RunnerLaunched /\ Observing = {}
          /\ AuthorizationsSent = {} /\ ~Waited
    /\ xloc.auth_result = Some("NSError") =>
          /\ xout.status = "raised" /\ xout.at = "authorize"
          /\ xout.exc.kind = "RuntimeError"
          /\ ~Waited

\* a run that went through all the steps and left the wait
C30_Witness ==
    /\ xpc = "done" /\ xout.at = "verdict"
    /\ SessionInitiated /\ ConfigurationWritten /\ RunnerLaunched
    /\ Observing # {} /\ AuthorizationsSent # {}
    /\ xloc.auth_result = Some("ok")

\* C31: enable_ios16_developer_mode returns only on a DeveloperModeStatus of
\* true, having sent nothing to the amfi service. Action 1 is sent only with
\* reboot_ok, as the first action after a status of false; action 0 is sent
\* after a status of false, and with reboot_ok only after a response to
\* action 1 that is not 0xE6. A response of 0xE6 to action 1 raises the
\* rebooting error, a response of 0xD9 to action 0 the error about Settings,
\* any other response to action 0 the failed-to-enable error
EnableFn == "enable_ios16_developer_mode"
AmfiFn == "_send_action_to_amfi_lockdown"
AmfiCalls == {i \in DOMAIN stack : stack[i].fn = AmfiFn}
EnableLeaves == Running /\ Top.fn = EnableFn /\ Len(stack') < Len(stack)
EnableRaises(msg) ==
    /\ result'.status = "raised"
    /\ result'.exc = Exc("ServiceError", msg)
C31_ActionsInOrder ==
    \A i \in AmfiCalls :
        /\ i > 1 /\ stack[i - 1].fn = EnableFn
        /\ LET en == stack[i - 1] IN
           /\ en.data # <<>> /\ en.data[1] = <<"status", FALSE>>
           /\ stack[i].arg = 1 => (en.arg /\ en.pc = "act1" /\ Len(en.data) = 1)
           /\ stack[i].arg = 0 =>
                 /\ en.pc = "act0"
                 /\ IF en.arg
                    THEN /\ Len(en.data) = 2
                         /\ en.data[2][2] = 1 /\ en.data[2][3] # RespRebooting
                    ELSE Len(en.data) = 1
MountFn == "mount_developer_image"
MountCalls == {i \in DOMAIN stack : stack[i].fn = MountFn /\ stack[i].data # <<>>}
MountAttempts(f) == {k \in DOMAIN f.data.tried : f.data.tried[k][2] \in MountOutcomes}
PassedOver == {NoDirectory, "ImageMountFailed"}
MountLeaves == Running /\ Top.fn = MountFn /\ Len(stack') < Len(stack)
MountReturns ==
    IF Len(stack) = 1 THEN result'.status = "returned"
    ELSE rv' = Some("None") /\ result' = result
MountRaises(msg) ==
    /\ result'.status = "raised"
    /\ result'.exc = Exc("ServiceError", msg)
C32_GuessesInOrder ==
    \A i \in MountCalls :
        LET f == stack[i]
            minor == f.data.version[2]
            tr == f.data.tried
        IN  /\ \A k \in DOMAIN tr : tr[k][1] = minor - (k - 1)
            /\ \A k \in DOMAIN tr : k < Len(tr) => tr[k][2] \in PassedOver
            /\ Cardinality(MountAttempts(f)) <= minor + 1
            /\ f.data.guess >= -1
            /\ f.pc = "loop" =>
                  /\ f.data.guess = minor - Len(tr)
                  /\ \A k \in DOMAIN tr : tr[k][2] \in PassedOver
            /\ f.pc \in {"probe", "im1", "test", "tested"} => tr = <<>>
LeftUnclosed == UNION {conns[c].left : c \in DOMAIN conns}
C33_NoLeakOnFailure == LeftUnclosed \cap {"create_session", "cic"} = {}

\* the part of C33 about create_inner_connection alone: no exception of the
\* TLS handshake leaves it with the tunnel unclosed (violated as well)
C33_NoLeakInTlsHandshake == "cic" \notin LeftUnclosed

\* C34: the callback of the test-suite-finished message never raises: it
\* appends one XCTestResult for a message whose result is a pair of a selector
\* and the arguments of an XCTestResult, and for any other message it leaves
\* the list as it is and logs a warning
IsRecord(d) == d.m.sel = TestSuiteDidFinish
C34_RecordNeverRaises ==
    \A i \in DOMAIN cb_done :
        IsRecord(cb_done[i]) =>
            cb_done[i].outcome = IF cb_done[i].m.shape = "pair" THEN "appended"
                                 ELSE "ignored"

\* the part of C34 that holds: the list holds one XCTestResult for each
\* callback that appended, in the order the callbacks ran, and nothing else
IsAppended(d) == IsRecord(d) /\ d.outcome = "appended"
C34_NoneLost ==
    LET done == SelectSeq(cb_done, IsAppended) IN
    /\ Len(test_results) = Len(done)
    /\ \A k \in DOMAIN done : test_results[k] = XCTestResult(done[k].m)

====
